---- MODULE Spec2Model ----
(***************************************************************************)
(* Model of the block-sealing worker of go-wemix (miner/worker.go).        *)
(*                                                                         *)
(* The worker is a set of goroutines (work dispatcher, main loop, task     *)
(* loop, result loop) that communicate over channels.  Each goroutine is   *)
(* modelled by a program counter and its locals; each action is one        *)
(* handler, or one step of a handler where another goroutine can interleave*)
(* (an atomic load or store, a CAS, a channel operation, a lock).          *)
(*                                                                         *)
(* Several specifications share the variables:                             *)
(*   SpecCommit  the transaction committer driven over bounded queues      *)
(*   SpecPoW     PoW mode: newWorkLoop, mainLoop/commitWork, taskLoop      *)
(*   SpecLeader  leader mode: newWorkLoopEx, mainLoop/commitWork/commitEx  *)
(*   SpecSnap    updateSnapshot against the pending* readers               *)
(***************************************************************************)
EXTENDS Integers, Sequences, FiniteSets, TLC

(***************************************************************************)
(* Bounds of the model.                                                    *)
(***************************************************************************)
GasLimit == 70000          \* header.GasLimit of every block built
MaxTxsPerBlock == 2        \* params.MaxTxsPerBlock (a configuration value)
BlockMinBuildTxs == 1      \* params.BlockMinBuildTxs (a configuration value)
MaxQueueTxs == 2           \* transactions in one queue handed to the committer
MaxAccounts == 2           \* accounts in one queue
MaxRounds == 2             \* committer calls on one environment
MaxWords == 2              \* interrupt words the dispatcher allocates
MaxHead == 1               \* chain heads that arrive from outside
MaxNewTxs == 1             \* cap of the newTxs counter
MaxEnvs == 2               \* environments makeEnv creates
MaxPubs == 3               \* calls of updateSnapshot
MaxObjs == 5               \* StateDB copies made
MaxTaskNum == 1            \* block numbers of the tasks sent to the task loop
MaxSeals == 3              \* stop channels the task loop makes
MaxChain == 2              \* blocks of the chain an environment is made on
MaxSide == 3               \* side blocks
FirstSide == 11            \* the hash of the first side block

(***************************************************************************)
(* Program constants.                                                      *)
(***************************************************************************)
TxGas == 21000                   \* params.TxGas
commitInterruptNone == 0
commitInterruptNewHead == 1
commitInterruptResubmit == 2
resultQueueSize == 10
resubmitAdjustChanSize == 10
newWorkChanSize == 4
staleThreshold == 7

Nil == "nil"                     \* a nil pointer / nil error
NoTx == [id |-> 0]               \* Peek() == nil

Max(a, b) == IF a >= b THEN a ELSE b

(* time.Duration: an int64 count of nanoseconds, kept as <<hi, lo>> with   *)
(* value hi * Limb + lo and 0 <= lo < Limb, so that fifteen seconds and the *)
(* targets of the resubmit controller stay inside 32-bit integers.  The    *)
(* operators below are exact.                                               *)
Limb == 1000000
Dur(hi, lo) == <<hi + (lo \div Limb), lo % Limb>>
Millis(ms) == <<ms, 0>>
DLess(a, b) == a[1] < b[1] \/ (a[1] = b[1] /\ a[2] < b[2])
DAdd(a, b) == Dur(a[1] + b[1], a[2] + b[2])
DSub(a, b) == Dur(a[1] - b[1] - 1, a[2] + Limb - b[2])
\* a * k and the integer part of a / k, for 1 <= k <= 1000
DMul(a, k) == Dur(a[1] * k, a[2] * k)
DDiv(a, k) == <<a[1] \div k, ((a[1] % k) * Limb + a[2]) \div k>>

minRecommitInterval == Millis(1000)
maxRecommitInterval == Millis(15000)
\* intervalAdjustRatio = 0.1, as intervalAdjustRatio / RatioScale
RatioScale == 10
intervalAdjustRatio == 1
\* intervalAdjustBias = 200 * 1000.0 * 1000.0 nanoseconds
intervalAdjustBias == Millis(200)
\* adjust.ratio is kept in thousandths
RatioUnit == 1000

\* if recommit < minRecommitInterval { recommit = minRecommitInterval }
Sanitize(interval) ==
    IF DLess(interval, minRecommitInterval) THEN minRecommitInterval ELSE interval

\* The goroutines that call getSealingBlock.
MaxCallers == 2
Callers == 1..MaxCallers
\* A nil *types.Block is the empty sequence, a block b is <<b>>.
NilBlock == <<>>
NoParams == [timestamp |-> 0, forceTime |-> FALSE, parentHash |-> 0, random |-> 0,
             noUncle |-> FALSE, noExtra |-> FALSE]
NoReturn == [block |-> NilBlock, err |-> Nil]

\* Nothing handed to the chain yet; no call of prepareWork yet.
NoWritten == [by |-> "none", hash |-> 0, number |-> 0, receipts |-> <<>>, logs |-> <<>>]
\* No state, header or receipts held (address 0), and no owner holding any.
NoRef == [state |-> 0, header |-> 0, receipts |-> 0]
NoOwn == [pc |-> "idle", work |-> NoRef, current |-> NoRef, tasks |-> {},
          snapshot |-> NoRef]

NoPrepared == [called |-> FALSE]

\* No event handled yet.
NoAdjust == [kind |-> "none", ratio |-> 0, inc |-> FALSE, before |-> <<0, 0>>]

RECURSIVE SumGas(_)
SumGas(rs) == IF rs = <<>> THEN 0 ELSE Head(rs).gasUsed + SumGas(Tail(rs))

(***************************************************************************)
(* Transactions.  A queue handed to the committer holds transaction        *)
(* identities grouped by account.  What core.ApplyTransaction does with a  *)
(* transaction (its gas limit, the gas it uses, the error its execution    *)
(* ends with, whether it is EIP-155 protected on a chain without EIP-155)  *)
(* is an input of the committer, drawn from TxKinds when the transaction   *)
(* reaches the head of the queue.                                          *)
(***************************************************************************)
TxKinds ==
    { [gas |-> 21000, used |-> 21000, err |-> Nil,           replay |-> FALSE],
      [gas |-> 50000, used |-> 45000, err |-> Nil,           replay |-> FALSE],
      [gas |-> 21000, used |-> 21000, err |-> "nonce_low",   replay |-> FALSE],
      [gas |-> 21000, used |-> 21000, err |-> "nonce_high",  replay |-> FALSE],
      [gas |-> 21000, used |-> 21000, err |-> "unsupported", replay |-> FALSE],
      [gas |-> 21000, used |-> 21000, err |-> "other",       replay |-> FALSE],
      [gas |-> 21000, used |-> 21000, err |-> Nil,           replay |-> TRUE] }

MkTx(id, k) ==
    [id |-> id, gas |-> k.gas, used |-> k.used, err |-> k.err, replay |-> k.replay]

RECURSIVE QueueLen(_)
QueueLen(q) == IF q = <<>> THEN 0 ELSE Len(Head(q)) + QueueLen(Tail(q))

\* The queues of committer call r on an environment: up to MaxAccounts
\* accounts and MaxQueueTxs transactions in all; the transaction at place j of
\* account a has the identity 100*r + 10*a + j.
AccountList(r, a, n) == [j \in 1..n |-> 100 * r + 10 * a + j]

Queues(r) ==
    { q \in UNION { { [a \in 1..n |-> AccountList(r, a, ns[a])] :
                        ns \in [1..n -> 1..MaxQueueTxs] } : n \in 0..MaxAccounts } :
        QueueLen(q) <= MaxQueueTxs }

(***************************************************************************)
(* Navigation of the two queue types.  types.TransactionsByPriceAndNonce   *)
(* (commitTransactions) keeps the head account in front; TxOrderer         *)
(* (commitTransactionsSimple) serves the accounts round-robin.             *)
(***************************************************************************)
Peek(q) == IF q = <<>> THEN 0 ELSE Head(Head(q))

\* A Pop that leaves the queue as it is.
PopNothing(q) == q

Pop(q) == Tail(q)

Shift(q) ==
    IF Len(Head(q)) > 1 THEN <<Tail(Head(q))>> \o Tail(q) ELSE Tail(q)

ShiftOrderer(q) ==
    IF Len(Head(q)) > 1 THEN Tail(q) \o <<Tail(Head(q))>> ELSE Tail(q)

\* The queue without the transactions already marked committed
\* (commitTransactionsEx for the price queue, NewTxOrderer for the orderer).
RECURSIVE WithoutCommitted(_, _)
WithoutCommitted(q, done) ==
    IF q = <<>> THEN <<>>
    ELSE LET z == SelectSeq(Head(q), LAMBDA t : t \notin done)
         IN  (IF z = <<>> THEN <<>> ELSE <<z>>) \o WithoutCommitted(Tail(q), done)

(***************************************************************************)
(* The environment of one block-build attempt.                             *)
(***************************************************************************)
NilPool == -1              \* env.gasPool == nil

NoEnv ==
    [id |-> 0, parent |-> 0, number |-> 0, gasLimit |-> 0, gasPool |-> NilPool,
     tcount |-> 0, txs |-> <<>>, receipts |-> <<>>, state |-> <<>>,
     uncles |-> {}, hasTill |-> FALSE]

\* makeEnv, with the header prepareWork built: a fresh state on the parent's
\* root (an empty journal), no transactions, tcount 0, gasPool not yet set.
makeEnv(id, parent, hasTill) ==
    [id |-> id, parent |-> parent, number |-> parent + 1, gasLimit |-> GasLimit,
     gasPool |-> NilPool, tcount |-> 0, txs |-> <<>>, receipts |-> <<>>,
     state |-> <<>>, uncles |-> {}, hasTill |-> hasTill]

copyReceipts(receipts) == [i \in 1..Len(receipts) |-> receipts[i]]

\* environment.copy: a copy is no environment of makeEnv (id 0: its state
\* copy carries no running prefetcher).
copy(env) ==
    [id |-> 0, parent |-> env.parent, number |-> env.number,
     gasLimit |-> env.gasLimit,
     gasPool |-> IF env.gasPool # NilPool THEN env.gasPool ELSE NilPool,
     tcount |-> env.tcount,
     txs |-> [i \in 1..Len(env.txs) |-> env.txs[i]],
     receipts |-> copyReceipts(env.receipts),
     state |-> env.state, uncles |-> env.uncles, hasTill |-> FALSE]

(***************************************************************************)
(* core.ApplyTransaction on the environment's state and gas pool.  The     *)
(* state is a journal of writes: tx.id for an applied transaction, -tx.id  *)
(* for the partial writes of a failed one.  A success takes the gas limit  *)
(* of the transaction from the pool and gives back what was not used.      *)
(***************************************************************************)
ApplyTransaction(env, tx) ==
    IF tx.gas > env.gasPool
    THEN [err |-> "gas_limit", gasPool |-> env.gasPool,
          state |-> Append(env.state, 0 - tx.id), receipt |-> Nil]
    ELSE IF tx.err # Nil
    THEN [err |-> tx.err, gasPool |-> env.gasPool,
          state |-> Append(env.state, 0 - tx.id), receipt |-> Nil]
    ELSE [err |-> Nil, gasPool |-> (env.gasPool - tx.gas) + (tx.gas - tx.used),
          state |-> Append(env.state, tx.id),
          receipt |-> [tx |-> tx.id, gasUsed |-> tx.used]]

Snapshot(state) == Len(state)

RevertToSnapshot(state, snap) == SubSeq(state, 1, snap)

\* A commitTransaction that appends the transaction before looking at the error.
commitTransactionAppendsEarly(env, tx) ==
    LET snap == Snapshot(env.state)
        r == ApplyTransaction(env, tx)
    IN  IF r.err # Nil
        THEN [err |-> r.err,
              env |-> [env EXCEPT !.gasPool = r.gasPool,
                                  !.state = RevertToSnapshot(r.state, snap),
                                  !.txs = Append(@, tx.id)]]
        ELSE [err |-> Nil,
              env |-> [env EXCEPT !.gasPool = r.gasPool,
                                  !.state = r.state,
                                  !.txs = Append(@, tx.id),
                                  !.receipts = Append(@, r.receipt)]]

\* A commitTransaction that leaves the state as the failed application left it.
commitTransactionNoRevert(env, tx) ==
    LET r == ApplyTransaction(env, tx)
    IN  IF r.err # Nil
        THEN [err |-> r.err,
              env |-> [env EXCEPT !.gasPool = r.gasPool, !.state = r.state]]
        ELSE [err |-> Nil,
              env |-> [env EXCEPT !.gasPool = r.gasPool,
                                  !.state = r.state,
                                  !.txs = Append(@, tx.id),
                                  !.receipts = Append(@, r.receipt)]]

commitTransaction(env, tx) ==
    LET snap == Snapshot(env.state)
        r == ApplyTransaction(env, tx)
    IN  IF r.err # Nil
        THEN [err |-> r.err,
              env |-> [env EXCEPT !.gasPool = r.gasPool,
                                  !.state = RevertToSnapshot(r.state, snap)]]
        ELSE [err |-> Nil,
              env |-> [env EXCEPT !.gasPool = r.gasPool,
                                  !.state = r.state,
                                  !.txs = Append(@, tx.id),
                                  !.receipts = Append(@, r.receipt)]]

(***************************************************************************)
(* State.                                                                  *)
(***************************************************************************)
VARIABLES
    \* the environment being filled and the committer working on it
    \* (commitTransactions / commitTransactionsSimple)
    work,             \* the environment of the attempt
    txq,              \* the queue of the call
    committed,        \* committedTxs / the orderer's committed set
    ccall,            \* which call it is: "txs", "fill", "ex_price", "ex_simple"
    cint,             \* the interrupt word passed, 0 for nil
    cpc,              \* position of the committer
    cr1,              \* what the first load of the interrupt word read
    cret,             \* the value returned
    cexit,            \* why the loop was left
    sinceNewHead,     \* transactions applied while the word of this call holds NewHead
    \* the driver of SpecCommit
    rounds,           \* committer calls made on work so far
    envCopy,          \* the last environment.copy() of work
    pool,             \* what TxPool().Pending returns to the driver
    \* shared words and channels
    interrupts,       \* the interrupt words allocated so far: word -> value
    resubmitAdjustCh, \* chan *intervalAdjust
    deadline,         \* time.Until(*env.till) <= 0
    kinds,            \* the outcomes ApplyTransaction has in this run
    \* configuration and chain
    isPoW,            \* wemixminer.IsPoW()
    cliqueZero,       \* chainConfig.Clique != nil && Clique.Period == 0
    coinbaseSet,      \* w.coinbase != (common.Address{})
    noempty,          \* w.noempty
    ttdReached,       \* isTTDReached
    simpleOrder,      \* params.PrefetchCount != 0
    nLocal,           \* the first nLocal accounts of pool are TxPool().Locals()
    head,             \* w.chain.CurrentBlock(): its number, which names it
    \* worker fields
    running,          \* w.running
    exited,           \* exitCh is closed
    newTxs,           \* w.newTxs
    busyMining,       \* var busyMining int32
    current,          \* w.current
    pendingTasks,     \* w.pendingTasks: sealHash -> task
    snapshot,         \* snapshotBlock, snapshotReceipts, snapshotState
    newWorkCh,        \* chan *newWorkReq, capacity 4
    startCh,          \* chan struct{}, capacity 1: how many it holds
    chainHeadCh,      \* chan core.ChainHeadEvent
    \* the work dispatcher (newWorkLoop / newWorkLoopEx)
    dpc,              \* its position
    dInterrupt,       \* its local interrupt pointer: a word, 0 for nil
    dSig,             \* the signal of the commit in progress
    dNoempty,         \* the noempty argument of the commit in progress
    dTimer,           \* the event being handled is the timer's
    timerArmed,       \* the timer is set and will fire
    nextWord,         \* the next word new(int32) returns
    \* the main loop (mainLoop / commitWork / commit / commitEx)
    mpc,              \* its position
    mreq,             \* the request being served
    mtask,            \* the task it is sending on taskCh
    fillAborted,      \* a committer call of this attempt returned true
    mAdd,             \* len(ev.Txs) of the transaction event being handled
    \* the task loop
    tpc,              \* its position
    ttask,            \* the task received
    tprev,            \* prev, the last seal hash accepted (NoBlock: the zero hash)
    tstop,            \* stopCh != nil: a seal operation has not been interrupted
    \* environments and their prefetchers
    nextEnv,          \* the identity the next makeEnv gives
    stops,            \* env id -> how often its prefetcher was stopped
    \* the mining token (leader mode)
    token,            \* the token held: [height, parent], NoToken for none
    mtoken,           \* what AcquireMiningToken granted this attempt
    \* snapshotMu, the callers of updateSnapshot and the pending* readers
    smu,              \* snapshotMu: [writer, readers]
    swpc,             \* caller of updateSnapshot -> its position
    swenv,            \* caller of updateSnapshot -> the environment it publishes
    srpc,             \* reader -> its position
    srop,             \* reader -> the function it called
    srgot,            \* reader -> what it has read and returns
    snapObj,          \* the identity of the StateDB object in snapshotState
    nextObj,          \* the identity the next StateDB.Copy() gives
    nextPub,          \* the number of the next publication
    \* uncles
    uenv,             \* w.current as the uncle code sees it: header.ParentHash,
                      \* ancestors, family, uncles
    ucopy,            \* the last copy() of it
    localUncles,      \* w.localUncles: side blocks [hash, parent]
    remoteUncles,     \* w.remoteUncles
    \* the seal operations of the task loop and the result loop
    seals,            \* the stop channels the task loop made, in order, each with
                      \* the Seal call it was handed to: [hash, stopped, called,
                      \* delivered]
    kstop,            \* stopCh of the task loop: a place in seals, 0 for nil
    resultCh,         \* chan *types.Block, capacity resultQueueSize
    rlast,            \* what the result loop's last lookup in pendingTasks found
    pruned,           \* the seal hashes clearPending has deleted
    \* the resubmit interval of newWorkLoop
    configRecommit,   \* w.config.Recommit
    recommit,         \* recommit, in nanoseconds
    minRecommit,      \* minRecommit, the user-specified minimum
    nadjust,          \* the interval updates and feedbacks made so far
    radjust,          \* the last event the dispatcher handled, and the
                      \* interval before it
    \* shutdown
    rpc,              \* where resultLoop is: "select", "exit"
    closeReturned,    \* close() has returned from w.wg.Wait()
    \* getSealingBlock
    gpc,              \* where each call is: "idle", "select", "wait", "returned"
    gparams,          \* req.params of each call
    reqResult,        \* req.result of each call: chan *types.Block, capacity 1
    reqErr,           \* req.err of each call
    gret,             \* what each call returned: [block, err]
    gaccepted,        \* the main loop has received the request of the call
    \* receipts as objects
    heap,             \* the receipts and logs allocated so far, by address
    heap0,            \* the heap when the task was made
    taskReceipts,     \* task.receipts / env.receipts: addresses of receipts
    written,          \* what WriteBlockAndSetHead was handed
    own,              \* who holds which state, header and receipts, by address
    \* the chain database, the event mux, the unconfirmed set, the token service
    chainHas,         \* the hashes chain.HasBlock answers true for
    oplog,            \* the calls made by a handler that the claims follow, in order
    \* prepareWork
    prepared          \* the last call of prepareWork: its parameters and result

cVars == <<txq, committed, ccall, cint, cpc, cr1, cret, cexit, sinceNewHead>>
hVars == <<rounds, envCopy, pool>>
cfgVars == <<kinds, isPoW, cliqueZero, coinbaseSet, noempty, ttdReached, simpleOrder, nLocal>>
wVars == <<running, exited, newTxs>>
chVars == <<newWorkCh, startCh, chainHeadCh>>
dVars == <<dpc, dInterrupt, dSig, dNoempty, dTimer, timerArmed, nextWord>>
mVars == <<mpc, mreq, mtask, fillAborted, mAdd>>
tVars == <<tpc, ttask, tprev, tstop>>
pVars == <<nextEnv, stops>>
lVars == <<token, mtoken>>
sVars == <<smu, swpc, swenv, srpc, srop, srgot, snapObj, nextObj, nextPub>>
uVars == <<uenv, ucopy, localUncles, remoteUncles>>
\* What the goroutines of the worker proper leave alone.
kVars == <<seals, kstop, resultCh, rlast, pruned>>
rVars == <<configRecommit, recommit, minRecommit, nadjust, radjust>>
zVars == <<rpc, closeReturned>>
gVars == <<gpc, gparams, reqResult, reqErr, gret, gaccepted>>
qVars == <<heap, heap0, taskReceipts, written, own>>
bVars == <<chainHas, oplog>>
x0Vars == <<rVars, zVars, gVars, qVars, prepared>>
xVars == <<x0Vars, bVars>>
oVars == <<sVars, uVars, kVars, xVars>>

\* Everything of the worker outside the committer and its environment.
workerVars ==
    <<cfgVars, head, wVars, busyMining, current, pendingTasks, snapshot, chVars,
      dVars, mVars, tVars, pVars, lVars, oVars>>

vars == <<work, cVars, hVars, interrupts, resubmitAdjustCh, deadline, workerVars>>

\* What the committer never writes.
NotCommitter == <<hVars, interrupts, deadline, workerVars>>

(***************************************************************************)
(* The committer.                                                          *)
(***************************************************************************)
HasTStart(call) == call \in {"ex_price", "ex_simple"}   \* tstart != nil
HasMap(call) == call \in {"ex_price", "ex_simple"}      \* committedTxs != nil
IsSimple(call) == call = "ex_simple"

\* A prologue that sets the gas pool on every call, not only when it is nil.
InitGasPoolAlways(env) == [env EXCEPT !.gasPool = env.gasLimit]

\* if env.gasPool == nil { env.gasPool = new(core.GasPool).AddGas(gasLimit) }
InitGasPool(env) ==
    IF env.gasPool = NilPool THEN [env EXCEPT !.gasPool = env.gasLimit] ELSE env

\* The call: the arguments and the prologue before the loop.
CallCommitter(env, q, call, interrupt) ==
    /\ work' = InitGasPool(env)
    /\ txq' = q
    /\ ccall' = call
    /\ cint' = interrupt
    /\ cpc' = "loop"
    /\ cr1' = commitInterruptNone
    /\ cret' = FALSE
    /\ cexit' = Nil
    /\ sinceNewHead' = 0

\* ratio := float64(gasLimit-env.gasPool.Gas()) / float64(gasLimit), at least
\* 0.1; in thousandths.
AdjustRatio(env) == Max(100, ((env.gasLimit - env.gasPool) * 1000) \div env.gasLimit)

\* Breaks without the minimum of transactions to build: the deadline alone
\* ends the loop.
ExitReasonNoMinimum(env, q, call, done, late) ==
    IF env.gasPool < TxGas THEN "gas"
    ELSE IF Peek(q) = 0 THEN "empty"
    ELSE IF ~IsSimple(call) /\ MaxTxsPerBlock > 0 /\ env.tcount >= MaxTxsPerBlock
    THEN "cap"
    ELSE IF HasTStart(call) /\ env.hasTill /\ late THEN "deadline"
    ELSE Nil

\* The breaks at the head of an iteration, in the order of the code.
ExitReason(env, q, call, done, late) ==
    IF env.gasPool < TxGas THEN "gas"
    ELSE IF Peek(q) = 0 THEN "empty"
    ELSE IF ~IsSimple(call) /\ MaxTxsPerBlock > 0 /\ env.tcount >= MaxTxsPerBlock
    THEN "cap"
    ELSE IF HasTStart(call) /\ env.hasTill /\ late
            /\ Cardinality(done) >= BlockMinBuildTxs
    THEN "deadline"
    ELSE Nil

\* The switch on the error of commitTransaction: Pop or Shift.
ErrorDispatch(err) ==
    CASE err = "gas_limit"   -> "pop"
      [] err = "nonce_low"   -> "shift"
      [] err = "nonce_high"  -> "pop"
      [] err = Nil           -> "shift"
      [] err = "unsupported" -> "pop"
      [] OTHER               -> "shift"

Navigate(q, call, move) ==
    IF move = "pop" THEN Pop(q)
    ELSE IF IsSimple(call) THEN ShiftOrderer(q) ELSE Shift(q)

\* The three loads of one interrupt check, each an atomic load of its own.
InterruptLoad1(word) == word # commitInterruptNone
\* A second load that takes any signal for a resubmit.
InterruptLoad2AnySignal(word) == word # commitInterruptNone

InterruptLoad2(word) == word = commitInterruptResubmit
\* A last load that returns true for any signal.
InterruptLoad3AnySignal(word) == word # commitInterruptNone

InterruptLoad3(word) == word = commitInterruptNewHead

\* if interrupt != nil && atomic.LoadInt32(interrupt) != commitInterruptNone
CommitterLoad1 ==
    /\ cpc = "loop"
    /\ cint # 0
    /\ IF InterruptLoad1(interrupts[cint])
       THEN cpc' = "load2" /\ cr1' = interrupts[cint]
       ELSE cpc' = "body" /\ UNCHANGED cr1
    /\ UNCHANGED <<work, txq, committed, ccall, cint, cret, cexit, sinceNewHead, resubmitAdjustCh, NotCommitter>>

CommitterLoad2 ==
    /\ cpc = "load2"
    /\ cpc' = IF InterruptLoad2(interrupts[cint]) THEN "send_inc" ELSE "load3"
    /\ UNCHANGED <<work, txq, committed, ccall, cint, cr1, cret, cexit, sinceNewHead, resubmitAdjustCh, NotCommitter>>

\* w.resubmitAdjustCh <- &intervalAdjust{ratio, inc: true}; blocks while full
CommitterSendInc ==
    /\ cpc = "send_inc"
    /\ Len(resubmitAdjustCh) < resubmitAdjustChanSize
    /\ resubmitAdjustCh' = Append(resubmitAdjustCh, [ratio |-> AdjustRatio(work), inc |-> TRUE])
    /\ cpc' = "load3"
    /\ UNCHANGED <<work, txq, committed, ccall, cint, cr1, cret, cexit, sinceNewHead, NotCommitter>>

\* return atomic.LoadInt32(interrupt) == commitInterruptNewHead
CommitterLoad3 ==
    /\ cpc = "load3"
    /\ cret' = InterruptLoad3(interrupts[cint])
    /\ cexit' = "interrupt"
    /\ cpc' = "done"
    /\ UNCHANGED <<work, txq, committed, ccall, cint, cr1, sinceNewHead, resubmitAdjustCh, NotCommitter>>

\* The rest of one iteration: the breaks, then one transaction.  With a nil
\* interrupt there is no load before it and no send after the loop.
CommitterBody ==
    /\ cpc = "body" \/ (cpc = "loop" /\ cint = 0)
    /\ LET why == ExitReason(work, txq, ccall, committed, deadline)
       IN  IF why # Nil
           THEN /\ cexit' = why
                /\ cpc' = IF cint # 0 THEN "post" ELSE "done"
                /\ UNCHANGED <<work, txq, committed, sinceNewHead>>
           ELSE \E k \in kinds :
                  LET tx == MkTx(Peek(txq), k)
                      r == commitTransaction(work, tx)
                  IN  /\ committed' = IF HasMap(ccall) THEN committed \cup {tx.id}
                                      ELSE committed
                      /\ IF tx.replay
                         THEN /\ txq' = Pop(txq)
                              /\ UNCHANGED <<work, sinceNewHead>>
                         ELSE /\ work' = IF r.err = Nil
                                         THEN [r.env EXCEPT !.tcount = @ + 1]
                                         ELSE r.env
                              /\ txq' = Navigate(txq, ccall, ErrorDispatch(r.err))
                              /\ sinceNewHead' =
                                    IF /\ r.err = Nil
                                       /\ cint # 0
                                       /\ interrupts[cint] = commitInterruptNewHead
                                    THEN sinceNewHead + 1 ELSE sinceNewHead
                      /\ cpc' = "loop"
                      /\ UNCHANGED cexit
    /\ UNCHANGED <<ccall, cint, cr1, cret, resubmitAdjustCh, NotCommitter>>

\* After the loop: if interrupt != nil, send intervalAdjust{inc: false}; return false.
CommitterPost ==
    /\ cpc = "post"
    /\ Len(resubmitAdjustCh) < resubmitAdjustChanSize
    /\ resubmitAdjustCh' = Append(resubmitAdjustCh, [ratio |-> 0, inc |-> FALSE])
    /\ cret' = FALSE
    /\ cpc' = "done"
    /\ UNCHANGED <<work, txq, committed, ccall, cint, cr1, cexit, sinceNewHead, NotCommitter>>

Committer ==
    \/ CommitterLoad1
    \/ CommitterLoad2
    \/ CommitterSendInc
    \/ CommitterLoad3
    \/ CommitterBody
    \/ CommitterPost

(***************************************************************************)
(* The worker after newWorker: no work yet, the goroutines at their select.*)
(***************************************************************************)
NoToken == [height |-> 0, parent |-> 0]
NoReq == [interrupt |-> 0, noempty |-> FALSE, sig |-> commitInterruptNone]
NoBlock == [number |-> 0, parent |-> 0, txs |-> <<>>, uncles |-> {}]
NoTask == [block |-> NoBlock, receipts |-> <<>>, state |-> <<>>, aborted |-> FALSE]
NilState == <<0>>               \* a nil *state.StateDB (no journal holds 0)
NoSnapshot == [block |-> NoBlock, receipts |-> <<>>, state |-> NilState]

\* The goroutines that call updateSnapshot, and the callers of the pending*
\* functions.
Writers == {"main", "dispatcher"}
Readers == {1, 2}
NoRead == [block |-> NoBlock, receipts |-> <<>>, state |-> NilState, obj |-> 0,
           read |-> {}]

\* w.current == nil, for the uncle code
NoUncleEnv == [parent |-> 0, ancestors |-> {}, family |-> {}, uncles |-> {}]

\* The result loop has looked nothing up.
NoLookup == [hash |-> NoBlock, exist |-> TRUE]

newWorker(init) ==
    /\ head = 0
    /\ running = FALSE
    /\ exited = FALSE
    /\ newTxs = 0
    /\ busyMining = 0
    /\ current = NoEnv
    /\ pendingTasks = {}
    /\ snapshot = NoSnapshot
    /\ newWorkCh = <<>>
    /\ startCh = (IF init THEN 1 ELSE 0)
    /\ chainHeadCh = <<>>
    /\ dpc = "select"
    /\ dInterrupt = 0
    /\ dSig = commitInterruptNone
    /\ dNoempty = FALSE
    /\ dTimer = FALSE
    /\ timerArmed = ~isPoW
    /\ nextWord = 1
    /\ mpc = "select"
    /\ mreq = NoReq
    /\ mtask = NoTask
    /\ fillAborted = FALSE
    /\ mAdd = 0
    /\ tpc = "select"
    /\ ttask = NoTask
    /\ tprev = NoBlock
    /\ tstop = FALSE
    /\ nextEnv = 1
    /\ stops = <<>>
    /\ token = NoToken
    /\ mtoken = NoToken
    /\ smu = [writer |-> "none", readers |-> {}]
    /\ swpc = [w \in Writers |-> "idle"]
    /\ swenv = [w \in Writers |-> NoEnv]
    /\ srpc = [r \in Readers |-> "idle"]
    /\ srop = [r \in Readers |-> "pendingBlock"]
    /\ srgot = [r \in Readers |-> NoRead]
    /\ snapObj = 0
    /\ nextObj = 1
    /\ nextPub = 1
    /\ uenv = NoUncleEnv
    /\ ucopy = NoUncleEnv
    /\ localUncles = {}
    /\ remoteUncles = {}
    /\ seals = <<>>
    /\ kstop = 0
    /\ resultCh = <<>>
    /\ rlast = NoLookup
    /\ pruned = {}
    /\ recommit = Sanitize(configRecommit)
    /\ minRecommit = recommit
    /\ nadjust = 0
    /\ radjust = NoAdjust
    /\ rpc = "select"
    /\ closeReturned = FALSE
    /\ gpc = [c \in Callers |-> "idle"]
    /\ gparams = [c \in Callers |-> NoParams]
    /\ reqResult = [c \in Callers |-> <<>>]
    /\ reqErr = [c \in Callers |-> Nil]
    /\ gret = [c \in Callers |-> NoReturn]
    /\ gaccepted = [c \in Callers |-> FALSE]
    /\ heap = <<>>
    /\ heap0 = <<>>
    /\ own = NoOwn
    /\ taskReceipts = <<>>
    /\ written = NoWritten
    /\ chainHas = {}
    /\ oplog = <<>>
    /\ prepared = NoPrepared

\* The committer when no call has been made.
NoCall ==
    /\ work = NoEnv
    /\ txq = <<>>
    /\ committed = {}
    /\ ccall = "fill"
    /\ cint = 0
    /\ cpc = "idle"
    /\ cr1 = commitInterruptNone
    /\ cret = FALSE
    /\ cexit = Nil
    /\ sinceNewHead = 0

(***************************************************************************)
(* SpecCommit: the committer called on one environment, as its callers     *)
(* call it: by fillTransactions ("fill": the local, then the remote        *)
(* transactions), by the main loop on a transaction event ("txs"), and by  *)
(* the rounds of commitTransactionsEx ("ex_price", "ex_simple").  The      *)
(* dispatcher may store a signal into the interrupt word at any moment,    *)
(* once (commit replaces its pointer by a new word right after the store); *)
(* the deadline may pass at any moment.                                    *)
(***************************************************************************)
Calls == {"txs", "fill", "ex_price", "ex_simple"}

InitCommit ==
    /\ \E hasTill \in BOOLEAN : work = InitGasPool(makeEnv(1, 0, hasTill))
    /\ pool \in Queues(1)
    /\ txq = pool
    /\ committed = {}
    /\ ccall \in Calls
    /\ cint \in {0, 1}
    /\ (ccall = "txs" => cint = 0)
    /\ cpc = "loop"
    /\ cr1 = commitInterruptNone
    /\ cret = FALSE
    /\ cexit = Nil
    /\ sinceNewHead = 0
    /\ rounds = 1
    /\ envCopy = NoEnv
    /\ interrupts = [w \in {1} |-> commitInterruptNone]
    /\ resubmitAdjustCh = <<>>
    /\ deadline = FALSE
    /\ kinds = TxKinds
    /\ isPoW = ~HasTStart(ccall)
    /\ cliqueZero = FALSE
    /\ coinbaseSet = TRUE
    /\ noempty = FALSE
    /\ ttdReached = FALSE
    /\ simpleOrder = (ccall = "ex_simple")
    /\ nLocal = 0
    /\ configRecommit = minRecommitInterval
    /\ newWorker(FALSE)

\* newWorkLoop.commit: atomic.StoreInt32(interrupt, s), once per word.
DriverSignal ==
    /\ cint # 0
    /\ interrupts[cint] = commitInterruptNone
    /\ \E s \in {commitInterruptNewHead, commitInterruptResubmit} :
          interrupts' = [interrupts EXCEPT ![cint] = s]
    /\ UNCHANGED <<work, cVars, hVars, resubmitAdjustCh, deadline, workerVars>>

\* The clock passes env.till (read only by a call that is given tstart, on an
\* environment that has a deadline).
DriverTick ==
    /\ ~deadline
    /\ HasTStart(ccall) /\ work.hasTill
    /\ deadline' = TRUE
    /\ UNCHANGED <<work, cVars, hVars, interrupts, resubmitAdjustCh, workerVars>>

\* The next call on the same environment: fillTransactions' second call and
\* the next transaction event bring other transactions; a round of
\* commitTransactionsEx fetches the pool again (what it held and what has
\* arrived) and leaves out the transactions already marked committed.
DriverRound ==
    /\ cpc = "done"
    /\ ~cret
    /\ rounds < MaxRounds
    /\ \E fresh \in Queues(rounds + 1) :
          LET pending == IF HasMap(ccall) THEN pool \o fresh ELSE fresh
          IN  /\ pool' = pending
              /\ CallCommitter(work, WithoutCommitted(pending, committed), ccall, cint)
    /\ rounds' = rounds + 1
    /\ UNCHANGED <<committed, envCopy, interrupts, resubmitAdjustCh, deadline, workerVars>>

\* work.copy(), as commit and commitEx are handed
DriverCopy ==
    /\ cpc = "done"
    /\ envCopy' = copy(work)
    /\ UNCHANGED <<work, cVars, rounds, pool, interrupts, resubmitAdjustCh, deadline, workerVars>>

NextCommit ==
    \/ Committer
    \/ DriverSignal
    \/ DriverTick
    \/ DriverRound
    \/ DriverCopy

SpecCommit == InitCommit /\ [][NextCommit]_vars

(***************************************************************************)
(* Claims on the committer and the environment (SpecCommit).               *)
(***************************************************************************)
Environments == {work, envCopy}

\* C3: the committer returns true exactly when it left the loop on an
\* interrupt check whose word holds NewHead; it returns false when the check
\* read Resubmit and on the gas, empty-queue, count-cap and deadline breaks;
\* and while the word holds NewHead it applies at most one more transaction.
C3_ReturnsTrueIffNewHead ==
    /\ sinceNewHead <= 1
    /\ cpc = "done" =>
          /\ cret <=> (cexit = "interrupt" /\ cr1 = commitInterruptNewHead)
          /\ cret => interrupts[cint] = commitInterruptNewHead
          /\ (cexit = "interrupt" /\ cr1 = commitInterruptResubmit) => ~cret
          /\ cexit \in {"gas", "empty", "cap", "deadline"} => ~cret
          /\ cexit \in {"interrupt", "gas", "empty", "cap", "deadline"}

\* A call that applied one transaction after NewHead was stored and then
\* returned true.
C3_Witness ==
    /\ cpc = "done" /\ cret /\ sinceNewHead = 1 /\ ccall = "ex_simple"

\* C9: in every environment, copies included, txs, receipts and tcount agree
\* in length and receipt i is the receipt of transaction i.
C9_TxsReceiptsAligned ==
    \A env \in Environments :
        /\ Len(env.txs) = Len(env.receipts)
        /\ Len(env.txs) = env.tcount
        /\ \A i \in 1..Len(env.txs) : env.receipts[i].tx = env.txs[i]

\* Two rounds with a failed application among them, two transactions applied,
\* and a copy taken.
C9_Witness ==
    /\ rounds = 2 /\ cpc = "done" /\ work.tcount = 2
    /\ Cardinality(committed) > work.tcount
    /\ envCopy.tcount = 2 /\ envCopy.txs = work.txs

Applied(env) == <<env.state, env.txs, env.receipts, env.tcount>>

\* C20: a step of the committer that handles a transaction either leaves the
\* state, txs, receipts and tcount of the environment exactly as they were, or
\* adds this one transaction to txs, one receipt to receipts, one to tcount and
\* the transaction's effect to the state; and whatever error the application
\* of the transaction at the head of the queue gives, commitTransaction hands
\* back the environment with state, txs, receipts and tcount as before.
C20_FailedApplyRestores ==
    [][(cpc \in {"body", "loop"} /\ cpc' = "loop" /\ txq' # txq) =>
         /\ \A k \in kinds :
               LET r == commitTransaction(work, MkTx(Peek(txq), k))
               IN  r.err # Nil => Applied(r.env) = Applied(work)
         /\ \/ Applied(work') = Applied(work)
            \/ /\ work'.txs = Append(work.txs, Peek(txq))
               /\ Len(work'.receipts) = Len(work.receipts) + 1
               /\ work'.tcount = work.tcount + 1
               /\ work'.state = Append(work.state, Peek(txq))]_vars

\* The first transaction of an account failed with an error that shifts to
\* the account's next one (nonce too low, or another error): nothing was
\* applied and the state is the empty journal again.
C20_Witness ==
    /\ rounds = 1 /\ ~IsSimple(ccall) /\ cpc = "loop"
    /\ pool = <<AccountList(1, 1, 2)>> /\ txq = <<<<112>>>>
    /\ Applied(work) = <<<<>>, <<>>, <<>>, 0>>

(***************************************************************************)
(* Operations of the worker used in both modes.                            *)
(***************************************************************************)
\* engine.FinalizeAndAssemble / types.NewBlock: the block of an environment
FinalizeAndAssemble(env) ==
    [number |-> env.number, parent |-> env.parent, txs |-> env.txs,
     uncles |-> env.uncles]

\* engine.SealHash: the hash of the header's content
SealHash(block) == block

\* updateSnapshot: the three fields, written under snapshotMu
updateSnapshot(env) ==
    [block |-> FinalizeAndAssemble(env), receipts |-> copyReceipts(env.receipts),
     state |-> env.state]

\* environment.discard: stops the prefetcher of the environment's state
discard(env, st) == [st EXCEPT ![env.id] = @ + 1]

\* clearPending: drops the stale tasks
clearPending(tasks, number) ==
    { e \in tasks : ~(e.task.block.number + staleThreshold <= number) }

\* An insert under a hash that leaves the transactions of the block out.
InsertTaskNoTxs(tasks, h, t) ==
    { e \in tasks : e.hash # h } \cup { [hash |-> [h EXCEPT !.txs = <<>>], task |-> t] }

\* w.pendingTasks[sealHash] = task
InsertTask(tasks, h, t) ==
    { e \in tasks : e.hash # h } \cup { [hash |-> h, task |-> t] }

\* delete(w.pendingTasks, sealHash)
DeleteTask(tasks, h) == { e \in tasks : e.hash # h }

\* The task commit sends for an environment copy.
MkTask(env, aborted) ==
    [block |-> FinalizeAndAssemble(env), receipts |-> env.receipts,
     state |-> env.state, aborted |-> aborted]

(***************************************************************************)
(* newWorkLoop, the work dispatcher of PoW mode.  commit is three steps,   *)
(* each atomic: the store into the previous interrupt word; new(int32) and *)
(* the send on newWorkCh (or the return on exitCh); timer.Reset and the    *)
(* store of newTxs.                                                        *)
(***************************************************************************)
\* What the dispatcher never writes.
NotDispatcher ==
    <<work, cVars, hVars, deadline, cfgVars, head, running, exited, current,
      mVars, tVars, lVars, oVars>>

\* A commit that sends the request before it stores the signal.
commitOrderSendFirst == <<"send", "store", "reset">>

commitOrder == <<"store", "send", "reset">>

CommitAfter(step) ==
    LET i == CHOOSE k \in 1..Len(commitOrder) : commitOrder[k] = step
    IN  IF i < Len(commitOrder) THEN commitOrder[i + 1] ELSE "select"

\* commit(noempty, s) is entered
DispBegin(noemp, s) ==
    /\ dNoempty' = noemp
    /\ dSig' = s
    /\ dpc' = commitOrder[1]

\* case <-w.startCh
DispStart ==
    /\ dpc = "select"
    /\ startCh > 0
    /\ nextWord <= MaxWords
    /\ startCh' = 0
    /\ pendingTasks' = clearPending(pendingTasks, head)
    /\ DispBegin(FALSE, commitInterruptNewHead)
    /\ UNCHANGED <<dInterrupt, dTimer, timerArmed, nextWord, interrupts, newWorkCh,
                   chainHeadCh, newTxs, resubmitAdjustCh, busyMining, snapshot,
                   pVars, NotDispatcher>>

\* case head := <-w.chainHeadCh
DispChainHead ==
    /\ dpc = "select"
    /\ chainHeadCh # <<>>
    /\ nextWord <= MaxWords
    /\ chainHeadCh' = Tail(chainHeadCh)
    /\ pendingTasks' = clearPending(pendingTasks, Head(chainHeadCh))
    /\ DispBegin(FALSE, commitInterruptNewHead)
    /\ UNCHANGED <<dInterrupt, dTimer, timerArmed, nextWord, interrupts, newWorkCh,
                   startCh, newTxs, resubmitAdjustCh, busyMining, snapshot,
                   pVars, NotDispatcher>>

\* A timer case that leaves the timer stopped when no transaction has arrived.
DispTimerNoReset ==
    /\ dpc = "select"
    /\ timerArmed
    /\ nextWord <= MaxWords
    /\ IF running /\ ~cliqueZero
       THEN IF newTxs = 0
            THEN /\ timerArmed' = FALSE
                 /\ UNCHANGED <<dpc, dSig, dNoempty>>
            ELSE /\ timerArmed' = FALSE
                 /\ DispBegin(TRUE, commitInterruptResubmit)
       ELSE /\ timerArmed' = FALSE
            /\ UNCHANGED <<dpc, dSig, dNoempty>>
    /\ UNCHANGED <<dInterrupt, dTimer, nextWord, interrupts, newWorkCh, startCh,
                   chainHeadCh, newTxs, pendingTasks, resubmitAdjustCh, busyMining,
                   snapshot, pVars, NotDispatcher>>

\* case <-timer.C
DispTimer ==
    /\ dpc = "select"
    /\ timerArmed
    /\ nextWord <= MaxWords
    /\ IF running /\ ~cliqueZero
       THEN IF newTxs = 0
            THEN UNCHANGED <<timerArmed, dpc, dSig, dNoempty>>
            ELSE /\ timerArmed' = FALSE
                 /\ DispBegin(TRUE, commitInterruptResubmit)
       ELSE /\ timerArmed' = FALSE
            /\ UNCHANGED <<dpc, dSig, dNoempty>>
    /\ UNCHANGED <<dInterrupt, dTimer, nextWord, interrupts, newWorkCh, startCh,
                   chainHeadCh, newTxs, pendingTasks, resubmitAdjustCh, busyMining,
                   snapshot, pVars, NotDispatcher>>

\* if interrupt != nil { atomic.StoreInt32(interrupt, s) }
DispStore ==
    /\ dpc = "store"
    /\ interrupts' = IF dInterrupt # 0
                     THEN [interrupts EXCEPT ![dInterrupt] = dSig]
                     ELSE interrupts
    /\ dpc' = CommitAfter("store")
    /\ UNCHANGED <<dInterrupt, dSig, dNoempty, dTimer, timerArmed, nextWord,
                   newWorkCh, startCh, chainHeadCh, newTxs, pendingTasks,
                   resubmitAdjustCh, busyMining, snapshot, pVars, NotDispatcher>>

\* A send that allocates a word for the first request only and hands the
\* same word on afterwards.
DispSendReusesWord ==
    /\ dpc = "send"
    /\ Len(newWorkCh) < newWorkChanSize
    /\ dInterrupt' = IF dInterrupt # 0 THEN dInterrupt ELSE nextWord
    /\ nextWord' = IF dInterrupt # 0 THEN nextWord ELSE nextWord + 1
    /\ interrupts' = IF dInterrupt # 0 THEN interrupts
                     ELSE Append(interrupts, commitInterruptNone)
    /\ newWorkCh' = Append(newWorkCh, [interrupt |-> IF dInterrupt # 0 THEN dInterrupt ELSE nextWord, noempty |-> dNoempty,
                                       sig |-> dSig])
    /\ dpc' = CommitAfter("send")
    /\ UNCHANGED <<dSig, dNoempty, dTimer, timerArmed, startCh, chainHeadCh, newTxs,
                   pendingTasks, resubmitAdjustCh, busyMining, snapshot, pVars,
                   NotDispatcher>>

\* interrupt = new(int32); select { case w.newWorkCh <- &newWorkReq{...}:
DispSend ==
    /\ dpc = "send"
    /\ Len(newWorkCh) < newWorkChanSize
    /\ dInterrupt' = nextWord
    /\ nextWord' = nextWord + 1
    /\ interrupts' = Append(interrupts, commitInterruptNone)
    /\ newWorkCh' = Append(newWorkCh, [interrupt |-> nextWord, noempty |-> dNoempty,
                                       sig |-> dSig])
    /\ dpc' = CommitAfter("send")
    /\ UNCHANGED <<dSig, dNoempty, dTimer, timerArmed, startCh, chainHeadCh, newTxs,
                   pendingTasks, resubmitAdjustCh, busyMining, snapshot, pVars,
                   NotDispatcher>>

\* interrupt = new(int32); select { ... case <-w.exitCh: return }
DispSendExit ==
    /\ dpc = "send"
    /\ exited
    /\ dInterrupt' = nextWord
    /\ nextWord' = nextWord + 1
    /\ interrupts' = Append(interrupts, commitInterruptNone)
    /\ dpc' = "select"
    /\ dSig' = commitInterruptNone
    /\ dNoempty' = FALSE
    /\ UNCHANGED <<dTimer, timerArmed, newWorkCh, startCh,
                   chainHeadCh, newTxs, pendingTasks, resubmitAdjustCh, busyMining,
                   snapshot, pVars, NotDispatcher>>

\* timer.Reset(recommit); atomic.StoreInt32(&w.newTxs, 0)
DispReset ==
    /\ dpc = "reset"
    /\ timerArmed' = TRUE
    /\ newTxs' = 0
    /\ dpc' = CommitAfter("reset")
    /\ dSig' = commitInterruptNone
    /\ dNoempty' = FALSE
    /\ UNCHANGED <<dInterrupt, dTimer, nextWord, interrupts,
                   newWorkCh, startCh, chainHeadCh, pendingTasks, resubmitAdjustCh,
                   busyMining, snapshot, pVars, NotDispatcher>>

\* case adjust := <-w.resubmitAdjustCh
DispAdjust ==
    /\ dpc = "select"
    /\ resubmitAdjustCh # <<>>
    /\ resubmitAdjustCh' = Tail(resubmitAdjustCh)
    /\ UNCHANGED <<dVars, interrupts, newWorkCh, startCh, chainHeadCh, newTxs,
                   pendingTasks, busyMining, snapshot, pVars, NotDispatcher>>

\* case <-w.exitCh: return
DispExit ==
    /\ dpc = "select"
    /\ exited
    /\ dpc' = "exit"
    /\ timerArmed' = FALSE
    /\ UNCHANGED <<dInterrupt, dSig, dNoempty, dTimer, nextWord, interrupts,
                   newWorkCh, startCh, chainHeadCh, newTxs, pendingTasks,
                   resubmitAdjustCh, busyMining, snapshot, pVars, NotDispatcher>>

newWorkLoop ==
    \/ DispStart
    \/ DispChainHead
    \/ DispTimer
    \/ DispStore
    \/ DispSend
    \/ DispSendExit
    \/ DispReset
    \/ DispAdjust
    \/ DispExit

(***************************************************************************)
(* mainLoop.  commitWork is a sequence of steps of the main loop           *)
(* goroutine; the committer it calls runs as the steps of Committer.       *)
(***************************************************************************)
\* What the main loop never writes.
NotMainB ==
    <<interrupts, resubmitAdjustCh, cfgVars, running, exited, startCh, dVars,
      rounds, pool, tprev, tstop, pendingTasks, sVars, uVars, kVars, x0Vars>>
NotMain == <<NotMainB, bVars>>

\* A return of the handler: the deferred store of busyMining, then the rest of
\* the transaction-event case when commitWork was called from it.
EndAttempt ==
    /\ mpc' = "select"
    /\ busyMining' = 0
    /\ newTxs' = newTxs + mAdd
    /\ mAdd' = 0
    /\ mreq' = NoReq

\* The committer has returned and its locals are gone.
CommitterReturned ==
    /\ txq' = <<>>
    /\ ccall' = "fill"
    /\ cint' = 0
    /\ cpc' = "idle"
    /\ cr1' = commitInterruptNone
    /\ cret' = FALSE
    /\ cexit' = Nil
    /\ sinceNewHead' = 0

\* The transactions of one NewTxsEvent, grouped by account.
TxsEventQueue == << AccountList(3, 1, 1) >>

\* The mark the main loop leaves when it drops a NewTxsEvent at the continue
\* of the full-block check.
TxsDropped == [op |-> "continue", hash |-> 0, ok |-> FALSE]

\* TxPool().Pending split by TxPool().Locals()
LocalTxs == SubSeq(pool, 1, nLocal)
RemoteTxs == SubSeq(pool, nLocal + 1, Len(pool))

\* case req := <-w.newWorkCh
MainNewWork ==
    /\ mpc = "select"
    /\ newWorkCh # <<>>
    /\ nextEnv <= MaxEnvs
    /\ newWorkCh' = Tail(newWorkCh)
    /\ mreq' = [Head(newWorkCh) EXCEPT !.interrupt = IF isPoW THEN @ ELSE 0]
    /\ mpc' = "cw_cas"
    /\ UNCHANGED <<work, cVars, envCopy, deadline, head, chainHeadCh, newTxs,
                   busyMining, current, snapshot, mtask, fillAborted, mAdd, tpc,
                   ttask, pVars, lVars, NotMain>>

\* A transaction-event case that counts the event it drops.
MainTxsCountDropped ==
    /\ mpc = "select"
    /\ newTxs < MaxNewTxs
    /\ nextEnv <= MaxEnvs
    /\ IF ~running /\ current # NoEnv
       THEN IF current.gasPool # NilPool /\ current.gasPool < TxGas
            THEN /\ oplog' = <<TxsDropped>>
                 /\ newTxs' = newTxs + Len(TxsEventQueue)
                 /\ UNCHANGED <<work, cVars, mpc, mreq, mAdd>>
            ELSE /\ CallCommitter(current, TxsEventQueue, "txs", 0)
                 /\ mpc' = "txs_wait"
                 /\ mAdd' = Len(TxsEventQueue)
                 /\ UNCHANGED <<committed, mreq, newTxs, oplog>>
       ELSE IF cliqueZero
            THEN /\ mreq' = NoReq
                 /\ mpc' = "cw_cas"
                 /\ mAdd' = Len(TxsEventQueue)
                 /\ UNCHANGED <<work, cVars, newTxs, oplog>>
            ELSE /\ newTxs' = newTxs + Len(TxsEventQueue)
                 /\ UNCHANGED <<work, cVars, mpc, mreq, mAdd, oplog>>
    /\ UNCHANGED <<envCopy, deadline, head, chainHeadCh, newWorkCh, busyMining,
                   current, snapshot, mtask, fillAborted, tpc, ttask, pVars, lVars,
                   chainHas, NotMainB>>

\* case ev := <-w.txsCh
MainTxs ==
    /\ mpc = "select"
    /\ newTxs < MaxNewTxs
    /\ nextEnv <= MaxEnvs
    /\ IF ~running /\ current # NoEnv
       THEN IF current.gasPool # NilPool /\ current.gasPool < TxGas
            THEN /\ oplog' = <<TxsDropped>>
                 /\ UNCHANGED <<work, cVars, mpc, mreq, mAdd, newTxs>>
            ELSE /\ CallCommitter(current, TxsEventQueue, "txs", 0)
                 /\ mpc' = "txs_wait"
                 /\ mAdd' = Len(TxsEventQueue)
                 /\ UNCHANGED <<committed, mreq, newTxs, oplog>>
       ELSE IF cliqueZero
            THEN /\ mreq' = NoReq
                 /\ mpc' = "cw_cas"
                 /\ mAdd' = Len(TxsEventQueue)
                 /\ UNCHANGED <<work, cVars, newTxs, oplog>>
            ELSE /\ newTxs' = newTxs + Len(TxsEventQueue)
                 /\ UNCHANGED <<work, cVars, mpc, mreq, mAdd, oplog>>
    /\ UNCHANGED <<envCopy, deadline, head, chainHeadCh, newWorkCh, busyMining,
                   current, snapshot, mtask, fillAborted, tpc, ttask, pVars, lVars,
                   chainHas, NotMainB>>

\* the committer has returned to the transaction-event case
MainTxsDone ==
    /\ mpc = "txs_wait"
    /\ cpc = "done"
    /\ current' = work
    /\ snapshot' = IF current.tcount # work.tcount THEN updateSnapshot(work)
                   ELSE snapshot
    /\ newTxs' = newTxs + mAdd
    /\ mAdd' = 0
    /\ mpc' = "select"
    /\ CommitterReturned
    /\ UNCHANGED <<work, committed, envCopy, deadline, head, chainHeadCh, newWorkCh,
                   busyMining, mreq, mtask, fillAborted, tpc, ttask, pVars, lVars,
                   NotMain>>

\* case <-w.exitCh: return, and the deferred discard of w.current
MainExit ==
    /\ mpc = "select"
    /\ exited
    /\ stops' = IF current # NoEnv THEN discard(current, stops) ELSE stops
    /\ mpc' = "exit"
    /\ UNCHANGED <<work, cVars, envCopy, deadline, head, chainHeadCh, newTxs,
                   newWorkCh, busyMining, current, snapshot, mreq, mtask,
                   fillAborted, mAdd, tpc, ttask, nextEnv, lVars, NotMain>>

\* A CompareAndSwap that always succeeds.
CompareAndSwapBlind(flag) == TRUE

\* atomic.CompareAndSwapInt32(&busyMining, 0, 1)
CompareAndSwap(flag) == flag = 0

\* commitWork: the CompareAndSwap on busyMining
CwCas ==
    /\ mpc = "cw_cas"
    /\ IF CompareAndSwap(busyMining)
       THEN /\ busyMining' = 1
            /\ mpc' = IF isPoW THEN "cw_prepare" ELSE "cw_acquire"
            /\ UNCHANGED <<newTxs, mAdd, mreq>>
       ELSE /\ mpc' = "select"
            /\ newTxs' = newTxs + mAdd
            /\ mAdd' = 0
            /\ mreq' = NoReq
            /\ UNCHANGED busyMining
    /\ fillAborted' = FALSE
    /\ UNCHANGED <<work, cVars, envCopy, deadline, head, chainHeadCh, newWorkCh,
                   current, snapshot, mtask, tpc, ttask, pVars, lVars, NotMain>>

\* commitWork: the etherbase check and prepareWork (engine.Prepare or makeEnv
\* may fail)
CwPrepare ==
    /\ mpc = "cw_prepare"
    /\ \E ok \in BOOLEAN :
          IF (running /\ ~coinbaseSet) \/ ~ok
          THEN /\ EndAttempt
               /\ UNCHANGED <<work, committed, deadline, pVars>>
          ELSE /\ work' = makeEnv(nextEnv, head, ~isPoW)
               /\ nextEnv' = nextEnv + 1
               /\ stops' = Append(stops, 0)
               /\ deadline' = FALSE
               /\ committed' = {}
               /\ mpc' = IF isPoW THEN "preseal" ELSE "ex_round"
               /\ UNCHANGED <<busyMining, newTxs, mAdd, mreq>>
    /\ UNCHANGED <<txq, ccall, cint, cpc, cr1, cret, cexit, sinceNewHead, envCopy,
                   head, chainHeadCh, newWorkCh, current, snapshot, mtask,
                   fillAborted, tpc, ttask, lVars, NotMain>>

(***************************************************************************)
(* commitWork in PoW mode: the empty block sealed in advance, the fill,    *)
(* the full commit, the swap of w.current.                                 *)
(***************************************************************************)
\* A pre-seal that looks at neither noempty flag.
CwPresealIgnoresNoempty ==
    /\ mpc = "preseal"
    /\ IF TRUE
       THEN /\ envCopy' = copy(work)
            /\ IF running
               THEN \E ok \in BOOLEAN :
                      IF ok /\ ~ttdReached
                      THEN /\ mtask' = MkTask(copy(copy(work)), FALSE)
                           /\ mpc' = "preseal_send"
                      ELSE /\ mpc' = "fill_local"
                           /\ UNCHANGED mtask
               ELSE /\ mpc' = "fill_local"
                    /\ UNCHANGED mtask
       ELSE /\ mpc' = "fill_local"
            /\ UNCHANGED <<mtask, envCopy>>
    /\ UNCHANGED <<work, cVars, deadline, head, chainHeadCh, newTxs, newWorkCh,
                   busyMining, current, snapshot, mreq, fillAborted, mAdd, tpc,
                   ttask, pVars, lVars, NotMain>>

\* if !noempty && atomic.LoadUint32(&w.noempty) == 0 { w.commit(work.copy(), nil, false, start) }
CwPreseal ==
    /\ mpc = "preseal"
    /\ IF ~mreq.noempty /\ ~noempty
       THEN /\ envCopy' = copy(work)
            /\ IF running
               THEN \E ok \in BOOLEAN :
                      IF ok /\ ~ttdReached
                      THEN /\ mtask' = MkTask(copy(copy(work)), FALSE)
                           /\ mpc' = "preseal_send"
                      ELSE /\ mpc' = "fill_local"
                           /\ UNCHANGED mtask
               ELSE /\ mpc' = "fill_local"
                    /\ UNCHANGED mtask
       ELSE /\ mpc' = "fill_local"
            /\ UNCHANGED <<mtask, envCopy>>
    /\ UNCHANGED <<work, cVars, deadline, head, chainHeadCh, newTxs, newWorkCh,
                   busyMining, current, snapshot, mreq, fillAborted, mAdd, tpc,
                   ttask, pVars, lVars, NotMain>>

AfterSend(pc) == IF pc = "preseal_send" THEN "fill_local" ELSE "commit_update"

\* select { case w.taskCh <- task: ...: the task loop receives
TaskSend ==
    /\ mpc \in {"preseal_send", "commit_send"}
    /\ tpc = "select"
    /\ ttask' = mtask
    /\ tpc' = "handle"
    /\ mtask' = NoTask
    /\ mpc' = AfterSend(mpc)
    /\ UNCHANGED <<work, cVars, envCopy, deadline, head, chainHeadCh, newTxs,
                   newWorkCh, busyMining, current, snapshot, mreq, fillAborted,
                   mAdd, pVars, lVars, NotMain>>

\* select { ... case <-w.exitCh: }
TaskSendExit ==
    /\ mpc \in {"preseal_send", "commit_send"}
    /\ exited
    /\ mtask' = NoTask
    /\ mpc' = AfterSend(mpc)
    /\ UNCHANGED <<work, cVars, envCopy, deadline, head, chainHeadCh, newTxs,
                   newWorkCh, busyMining, current, snapshot, mreq, fillAborted,
                   mAdd, tpc, ttask, pVars, lVars, NotMain>>

\* fillTransactions: the local transactions
CwFillLocal ==
    /\ mpc = "fill_local"
    /\ IF LocalTxs # <<>>
       THEN /\ CallCommitter(work, LocalTxs, "fill", mreq.interrupt)
            /\ mpc' = "fill_local_wait"
       ELSE /\ mpc' = "fill_remote"
            /\ UNCHANGED <<work, txq, ccall, cint, cpc, cr1, cret, cexit,
                           sinceNewHead>>
    /\ UNCHANGED <<committed, envCopy, deadline, head, chainHeadCh, newTxs,
                   newWorkCh, busyMining, current, snapshot, mreq, mtask,
                   fillAborted, mAdd, tpc, ttask, pVars, lVars, NotMain>>

\* if w.commitTransactions(env, txs, interrupt, nil, nil) { return }
CwFillLocalDone ==
    /\ mpc = "fill_local_wait"
    /\ cpc = "done"
    /\ fillAborted' = cret
    /\ mpc' = IF cret THEN "commit" ELSE "fill_remote"
    /\ CommitterReturned
    /\ UNCHANGED <<work, committed, envCopy, deadline, head, chainHeadCh, newTxs,
                   newWorkCh, busyMining, current, snapshot, mreq, mtask, mAdd,
                   tpc, ttask, pVars, lVars, NotMain>>

\* fillTransactions: the remote transactions
CwFillRemote ==
    /\ mpc = "fill_remote"
    /\ IF RemoteTxs # <<>>
       THEN /\ CallCommitter(work, RemoteTxs, "fill", mreq.interrupt)
            /\ mpc' = "fill_remote_wait"
       ELSE /\ mpc' = "commit"
            /\ UNCHANGED <<work, txq, ccall, cint, cpc, cr1, cret, cexit,
                           sinceNewHead>>
    /\ UNCHANGED <<committed, envCopy, deadline, head, chainHeadCh, newTxs,
                   newWorkCh, busyMining, current, snapshot, mreq, mtask,
                   fillAborted, mAdd, tpc, ttask, pVars, lVars, NotMain>>

CwFillRemoteDone ==
    /\ mpc = "fill_remote_wait"
    /\ cpc = "done"
    /\ fillAborted' = cret
    /\ mpc' = "commit"
    /\ CommitterReturned
    /\ UNCHANGED <<work, committed, envCopy, deadline, head, chainHeadCh, newTxs,
                   newWorkCh, busyMining, current, snapshot, mreq, mtask, mAdd,
                   tpc, ttask, pVars, lVars, NotMain>>

\* w.commit(work.copy(), w.fullTaskHook, true, start), up to the send
CwCommit ==
    /\ mpc = "commit"
    /\ envCopy' = copy(work)
    /\ IF running
       THEN \E ok \in BOOLEAN :
              IF ~ok
              THEN /\ mpc' = "install"
                   /\ UNCHANGED mtask
              ELSE IF ~ttdReached
              THEN /\ mtask' = MkTask(copy(copy(work)), fillAborted)
                   /\ mpc' = "commit_send"
              ELSE /\ mpc' = "commit_update"
                   /\ UNCHANGED mtask
       ELSE /\ mpc' = "commit_update"
            /\ UNCHANGED mtask
    /\ UNCHANGED <<work, cVars, deadline, head, chainHeadCh, newTxs, newWorkCh,
                   busyMining, current, snapshot, mreq, fillAborted, mAdd, tpc,
                   ttask, pVars, lVars, NotMain>>

\* if update { w.updateSnapshot(env) }; then commitWork discards the old
\* w.current and installs work
CwFinish ==
    /\ mpc \in {"commit_update", "install"}
    /\ snapshot' = IF mpc = "commit_update" THEN updateSnapshot(envCopy)
                   ELSE snapshot
    /\ stops' = IF current # NoEnv THEN discard(current, stops) ELSE stops
    /\ current' = work
    /\ envCopy' = NoEnv
    /\ EndAttempt
    /\ UNCHANGED <<work, cVars, deadline, head, chainHeadCh, newWorkCh, mtask,
                   fillAborted, tpc, ttask, nextEnv, lVars, NotMain>>

(***************************************************************************)
(* taskLoop.                                                               *)
(***************************************************************************)
\* engine.Seal returns nil or an error
SealOutcomes == BOOLEAN

\* case task := <-w.taskCh, after the receive
TaskHandle ==
    /\ tpc = "handle"
    /\ LET sealHash == SealHash(ttask.block)
       IN  IF sealHash = tprev
           THEN UNCHANGED <<tprev, tstop, pendingTasks>>
           ELSE /\ tprev' = sealHash
                /\ tstop' = TRUE
                /\ \E ok \in SealOutcomes :
                      pendingTasks' =
                          IF ok THEN InsertTask(pendingTasks, sealHash, ttask)
                          ELSE DeleteTask(InsertTask(pendingTasks, sealHash, ttask),
                                          sealHash)
    /\ tpc' = "select"
    /\ ttask' = NoTask
    /\ UNCHANGED <<work, cVars, hVars, interrupts, resubmitAdjustCh, deadline,
                   cfgVars, head, wVars, busyMining, current, snapshot, chVars,
                   dVars, mVars, pVars, lVars, oVars>>

\* case <-w.exitCh: interrupt(); return
TaskExit ==
    /\ tpc = "select"
    /\ exited
    /\ tstop' = FALSE
    /\ tpc' = "exit"
    /\ UNCHANGED <<work, cVars, hVars, interrupts, resubmitAdjustCh, deadline,
                   cfgVars, head, wVars, busyMining, current, pendingTasks,
                   snapshot, chVars, dVars, mVars, ttask, tprev, pVars, lVars, oVars>>

taskLoop ==
    \/ TaskHandle
    \/ TaskExit

(***************************************************************************)
(* The callers of the worker and the chain.                                *)
(***************************************************************************)
\* start(): running = 1, then the send on startCh
ApiStart ==
    /\ ~exited
    /\ startCh = 0
    /\ running' = TRUE
    /\ startCh' = 1
    /\ UNCHANGED <<work, cVars, hVars, interrupts, resubmitAdjustCh, deadline,
                   cfgVars, head, exited, newTxs, busyMining, current, pendingTasks,
                   snapshot, newWorkCh, chainHeadCh, dVars, mVars, tVars, pVars,
                   lVars, oVars>>

\* stop(): running = 0
ApiStop ==
    /\ running
    /\ running' = FALSE
    /\ UNCHANGED <<work, cVars, hVars, interrupts, resubmitAdjustCh, deadline,
                   cfgVars, head, exited, newTxs, busyMining, current, pendingTasks,
                   snapshot, chVars, dVars, mVars, tVars, pVars, lVars, oVars>>

\* close(): running = 0, close(exitCh)
ApiClose ==
    /\ ~exited
    /\ running' = FALSE
    /\ exited' = TRUE
    /\ UNCHANGED <<work, cVars, hVars, interrupts, resubmitAdjustCh, deadline,
                   cfgVars, head, newTxs, busyMining, current, pendingTasks,
                   snapshot, chVars, dVars, mVars, tVars, pVars, lVars, oVars>>

\* A block imported from the network becomes the head; the chain posts a
\* ChainHeadEvent.
ExternalHead ==
    /\ head < MaxHead
    /\ head' = head + 1
    /\ chainHeadCh' = Append(chainHeadCh, head + 1)
    /\ UNCHANGED <<work, cVars, hVars, interrupts, resubmitAdjustCh, deadline,
                   cfgVars, wVars, busyMining, current, pendingTasks, snapshot,
                   newWorkCh, startCh, dVars, mVars, tVars, pVars, lVars, oVars>>

(***************************************************************************)
(* SpecPoW: the worker in PoW mode.                                        *)
(***************************************************************************)
PoWKinds == { k \in TxKinds : k.gas = 21000 /\ k.err = Nil /\ ~k.replay }

InitPoW ==
    /\ NoCall
    /\ rounds = 0
    /\ envCopy = NoEnv
    /\ pool = <<AccountList(1,1,1), AccountList(1,2,1)>>
    /\ interrupts = <<>>
    /\ resubmitAdjustCh = <<>>
    /\ deadline = FALSE
    /\ kinds = PoWKinds
    /\ isPoW = TRUE
    /\ cliqueZero = FALSE
    /\ coinbaseSet = TRUE
    /\ noempty = FALSE
    /\ ttdReached = FALSE
    /\ simpleOrder = FALSE
    /\ nLocal = 1
    /\ configRecommit = minRecommitInterval
    /\ newWorker(TRUE)

NextPoW ==
    \/ newWorkLoop
    \/ MainNewWork
    \/ MainTxs
    \/ MainTxsDone
    \/ MainExit
    \/ CwCas
    \/ CwPrepare
    \/ CwPreseal
    \/ TaskSend
    \/ TaskSendExit
    \/ CwFillLocal
    \/ CwFillLocalDone
    \/ CwFillRemote
    \/ CwFillRemoteDone
    \/ CwCommit
    \/ CwFinish
    \/ Committer
    \/ taskLoop
    \/ ApiStart
    \/ ApiStop
    \/ ApiClose
    \/ ExternalHead

SpecPoW == InitPoW /\ [][NextPoW]_vars

(***************************************************************************)
(* newWorkLoopEx, the work dispatcher of leader mode.  Its interrupt is    *)
(* nil, so no committer sends on resubmitAdjustCh and the two receive-only *)
(* cases of its select never run.                                          *)
(***************************************************************************)
\* case <-w.startCh: w.refreshPending(false) is entered
DispExStart ==
    /\ dpc = "select"
    /\ startCh > 0
    /\ nextEnv <= MaxEnvs
    /\ startCh' = 0
    /\ dpc' = "rp_cas"
    /\ UNCHANGED <<dInterrupt, dSig, dNoempty, dTimer, timerArmed, nextWord,
                   interrupts, newWorkCh, chainHeadCh, newTxs, pendingTasks,
                   resubmitAdjustCh, busyMining, snapshot, pVars, NotDispatcher>>

\* refreshPending(false): the CompareAndSwap; when it fails refreshPending
\* returns and the case goes on with clearPending
DispExRefreshCas ==
    /\ dpc = "rp_cas"
    /\ IF CompareAndSwap(busyMining)
       THEN /\ busyMining' = 1
            /\ dpc' = "rp_body"
            /\ UNCHANGED pendingTasks
       ELSE /\ pendingTasks' = clearPending(pendingTasks, head)
            /\ dpc' = "cs_cas"
            /\ UNCHANGED busyMining
    /\ UNCHANGED <<dInterrupt, dSig, dNoempty, dTimer, timerArmed, nextWord,
                   interrupts, newWorkCh, startCh, chainHeadCh, newTxs,
                   resubmitAdjustCh, snapshot, pVars, NotDispatcher>>

\* The body of refreshPending: engine.Prepare and makeEnv may fail; a new
\* environment is published as the snapshot and dropped.
refreshPending ==
    \E ok \in BOOLEAN :
       IF ok
       THEN /\ snapshot' = updateSnapshot(makeEnv(nextEnv, head, FALSE))
            /\ nextEnv' = nextEnv + 1
            /\ stops' = Append(stops, 0)
       ELSE UNCHANGED <<snapshot, nextEnv, stops>>

\* refreshPending(false) holding busyMining, its deferred store, and the
\* clearPending of the case
DispExRefresh ==
    /\ dpc = "rp_body"
    /\ refreshPending
    /\ busyMining' = 0
    /\ pendingTasks' = clearPending(pendingTasks, head)
    /\ dpc' = "cs_cas"
    /\ UNCHANGED <<dInterrupt, dSig, dNoempty, dTimer, timerArmed, nextWord,
                   interrupts, newWorkCh, startCh, chainHeadCh, newTxs,
                   resubmitAdjustCh, NotDispatcher>>

\* case head := <-w.chainHeadCh
DispExChainHead ==
    /\ dpc = "select"
    /\ chainHeadCh # <<>>
    /\ chainHeadCh' = Tail(chainHeadCh)
    /\ pendingTasks' = clearPending(pendingTasks, Head(chainHeadCh))
    /\ dpc' = "cs_cas"
    /\ UNCHANGED <<dInterrupt, dSig, dNoempty, dTimer, timerArmed, nextWord,
                   interrupts, newWorkCh, startCh, newTxs, resubmitAdjustCh,
                   busyMining, snapshot, pVars, NotDispatcher>>

\* case <-timer.C
DispExTimer ==
    /\ dpc = "select"
    /\ timerArmed
    /\ timerArmed' = FALSE
    /\ dTimer' = TRUE
    /\ dpc' = "cs_cas"
    /\ UNCHANGED <<dInterrupt, dSig, dNoempty, nextWord, interrupts, newWorkCh,
                   startCh, chainHeadCh, newTxs, pendingTasks, resubmitAdjustCh,
                   busyMining, snapshot, pVars, NotDispatcher>>

\* commitSimple: the CompareAndSwap; when it fails the case ends (the timer
\* case with timer.Reset)
DispExCas ==
    /\ dpc = "cs_cas"
    /\ IF CompareAndSwap(busyMining)
       THEN /\ busyMining' = 1
            /\ dpc' = "cs_send"
            /\ UNCHANGED <<timerArmed, dTimer>>
       ELSE /\ timerArmed' = (timerArmed \/ dTimer)
            /\ dTimer' = FALSE
            /\ dpc' = "select"
            /\ UNCHANGED busyMining
    /\ UNCHANGED <<dInterrupt, dSig, dNoempty, nextWord, interrupts, newWorkCh,
                   startCh, chainHeadCh, newTxs, pendingTasks, resubmitAdjustCh,
                   snapshot, pVars, NotDispatcher>>

\* w.newWorkCh <- &newWorkReq{interrupt: nil, ...}; atomic.StoreInt32(&w.newTxs, 0)
DispExSend ==
    /\ dpc = "cs_send"
    /\ Len(newWorkCh) < newWorkChanSize
    /\ newWorkCh' = Append(newWorkCh, NoReq)
    /\ newTxs' = 0
    /\ dpc' = "cs_release"
    /\ UNCHANGED <<dInterrupt, dSig, dNoempty, dTimer, timerArmed, nextWord,
                   interrupts, startCh, chainHeadCh, pendingTasks,
                   resubmitAdjustCh, busyMining, snapshot, pVars, NotDispatcher>>

\* atomic.StoreInt32(&busyMining, 0); the case ends
DispExRelease ==
    /\ dpc = "cs_release"
    /\ busyMining' = 0
    /\ timerArmed' = (timerArmed \/ dTimer)
    /\ dTimer' = FALSE
    /\ dpc' = "select"
    /\ UNCHANGED <<dInterrupt, dSig, dNoempty, nextWord, interrupts, newWorkCh,
                   startCh, chainHeadCh, newTxs, pendingTasks, resubmitAdjustCh,
                   snapshot, pVars, NotDispatcher>>

newWorkLoopEx ==
    \/ DispExStart
    \/ DispExRefreshCas
    \/ DispExRefresh
    \/ DispExChainHead
    \/ DispExTimer
    \/ DispExCas
    \/ DispExSend
    \/ DispExRelease
    \/ DispExit

(***************************************************************************)
(* commitWork in leader mode: the mining token, prepareWork, the rounds of *)
(* commitTransactionsEx, commitEx.                                         *)
(***************************************************************************)
\* parent := w.chain.CurrentBlock(); ok, err := AcquireMiningToken(height, parent.Hash())
CwAcquire ==
    /\ mpc = "cw_acquire"
    /\ \E ok \in BOOLEAN :
          IF ok
          THEN /\ token' = [height |-> head + 1, parent |-> head]
               /\ mtoken' = [height |-> head + 1, parent |-> head]
               /\ mpc' = "cw_prepare"
          ELSE /\ mtoken' = NoToken
               /\ mpc' = "cw_refresh"
               /\ UNCHANGED token
    /\ UNCHANGED <<work, cVars, envCopy, deadline, head, chainHeadCh, newTxs,
                   newWorkCh, busyMining, current, snapshot, mreq, mtask,
                   fillAborted, mAdd, tpc, ttask, pVars, NotMain>>

\* if !ok { w.refreshPending(true); return }
CwRefresh ==
    /\ mpc = "cw_refresh"
    /\ refreshPending
    /\ EndAttempt
    /\ UNCHANGED <<work, cVars, envCopy, deadline, head, chainHeadCh, newWorkCh,
                   current, mtask, fillAborted, tpc, ttask, lVars, NotMain>>

\* commitTransactionsEx: one round.  pending := TxPool().Pending(true); without
\* pending transactions the round sleeps, or ends the loop past the deadline.
CwExRound ==
    /\ mpc = "ex_round"
    /\ IF pool = <<>>
       THEN /\ mpc' = IF deadline THEN "cex" ELSE "ex_round"
            /\ UNCHANGED <<work, txq, ccall, cint, cpc, cr1, cret, cexit,
                           sinceNewHead>>
       ELSE /\ CallCommitter(work, WithoutCommitted(pool, committed),
                             IF simpleOrder THEN "ex_simple" ELSE "ex_price",
                             mreq.interrupt)
            /\ mpc' = "ex_wait"
    /\ UNCHANGED <<committed, envCopy, deadline, head, chainHeadCh, newTxs,
                   newWorkCh, busyMining, current, snapshot, mreq, mtask,
                   fillAborted, mAdd, tpc, ttask, pVars, lVars, NotMain>>

\* The committer has returned to the round: true ends commitWork, the
\* deadline ends the loop, otherwise the next round after a sleep.
CwExRoundDone ==
    /\ mpc = "ex_wait"
    /\ cpc = "done"
    /\ IF cret
       THEN EndAttempt
       ELSE /\ mpc' = IF deadline THEN "cex" ELSE "ex_round"
            /\ UNCHANGED <<busyMining, newTxs, mAdd, mreq>>
    /\ CommitterReturned
    /\ UNCHANGED <<work, committed, envCopy, deadline, head, chainHeadCh,
                   newWorkCh, current, snapshot, mtask, fillAborted, tpc, ttask,
                   pVars, lVars, NotMain>>

\* The clock passes env.till while commitTransactionsEx runs.
Tick ==
    /\ mpc \in {"ex_round", "ex_wait"}
    /\ ~deadline
    /\ deadline' = TRUE
    /\ UNCHANGED <<work, cVars, hVars, interrupts, resubmitAdjustCh, workerVars>>

\* What engine.Seal and chain.HasBlock leave commitEx with: an error of Seal,
\* a nil block, a block the chain already has, a new block.
SealResults == {"error", "nil", "known", "new"}

\* commitEx up to the sealed block: HasMiningToken, isRunning,
\* FinalizeAndAssemble, isTTDReached, engine.Seal
CexSeal ==
    /\ mpc = "cex"
    /\ oplog' = <<>>
    /\ IF token = NoToken
       THEN /\ EndAttempt
            /\ UNCHANGED envCopy
       ELSE IF ~running
       THEN /\ mpc' = "cex_update"
            /\ UNCHANGED <<envCopy, busyMining, newTxs, mAdd, mreq>>
       ELSE \E fin \in BOOLEAN :
              IF ~fin
              THEN /\ EndAttempt
                   /\ UNCHANGED envCopy
              ELSE IF ttdReached
              THEN /\ mpc' = "cex_update"
                   /\ envCopy' = copy(work)
                   /\ UNCHANGED <<busyMining, newTxs, mAdd, mreq>>
              ELSE \E res \in SealResults :
                     /\ envCopy' = copy(work)
                     /\ mpc' = IF res = "new" THEN "cex_write" ELSE "cex_update"
                     /\ UNCHANGED <<busyMining, newTxs, mAdd, mreq>>
    /\ UNCHANGED <<work, cVars, deadline, head, chainHeadCh, newWorkCh, current,
                   snapshot, mtask, fillAborted, tpc, ttask, pVars, token, mtoken,
                   chainHas, NotMainB>>

\* The calls commitEx makes for a sealed block that is not in the chain:
\* ReleaseMiningToken, then WriteBlockAndSetHead, each returning its error,
\* then mux.Post and unconfirmed.Insert.
commitExCalls(hash, rel, wr) ==
    IF ~rel THEN <<[op |-> "release", hash |-> hash, ok |-> FALSE]>>
    ELSE IF ~wr THEN <<[op |-> "release", hash |-> hash, ok |-> TRUE],
                       [op |-> "write", hash |-> hash, ok |-> FALSE]>>
    ELSE <<[op |-> "release", hash |-> hash, ok |-> TRUE],
           [op |-> "write", hash |-> hash, ok |-> TRUE],
           [op |-> "post", hash |-> hash, ok |-> TRUE],
           [op |-> "insert", hash |-> hash, ok |-> TRUE]>>

\* ReleaseMiningToken, then WriteBlockAndSetHead; either may fail, and commitEx
\* returns the error
CexWrite ==
    /\ mpc = "cex_write"
    /\ \E rel \in BOOLEAN, wr \in BOOLEAN :
          /\ oplog' = oplog \o commitExCalls(envCopy.number, rel, wr)
          /\ IF ~rel
             THEN /\ EndAttempt
                  /\ UNCHANGED <<token, head, chainHeadCh>>
             ELSE /\ token' = NoToken
                  /\ IF ~wr
                     THEN /\ EndAttempt
                          /\ UNCHANGED <<head, chainHeadCh>>
                     ELSE /\ mpc' = "cex_update"
                          /\ IF envCopy.number > head
                             THEN /\ head' = envCopy.number
                                  /\ chainHeadCh' = Append(chainHeadCh, envCopy.number)
                             ELSE UNCHANGED <<head, chainHeadCh>>
                          /\ UNCHANGED <<busyMining, newTxs, mAdd, mreq>>
    /\ UNCHANGED <<work, cVars, envCopy, deadline, newWorkCh, current, snapshot,
                   mtask, fillAborted, tpc, ttask, pVars, mtoken, chainHas, NotMainB>>

\* A commitEx that, after the snapshot, swaps the environment in as w.current,
\* as the PoW branch of commitWork does.
CexUpdateInstallsWork ==
    /\ mpc = "cex_update"
    /\ snapshot' = updateSnapshot(work)
    /\ envCopy' = NoEnv
    /\ current' = work
    /\ EndAttempt
    /\ UNCHANGED <<work, cVars, deadline, head, chainHeadCh, newWorkCh,
                   mtask, fillAborted, tpc, ttask, pVars, lVars, NotMain>>

\* if update { w.updateSnapshot(env) }; commitWork returns
CexUpdate ==
    /\ mpc = "cex_update"
    /\ snapshot' = updateSnapshot(work)
    /\ envCopy' = NoEnv
    /\ EndAttempt
    /\ UNCHANGED <<work, cVars, deadline, head, chainHeadCh, newWorkCh, current,
                   mtask, fillAborted, tpc, ttask, pVars, lVars, NotMain>>

(***************************************************************************)
(* SpecLeader: the worker in leader mode.                                  *)
(***************************************************************************)
InitLeader ==
    /\ NoCall
    /\ rounds = 0
    /\ envCopy = NoEnv
    /\ pool = <<AccountList(1, 1, 1)>>
    /\ interrupts = <<>>
    /\ resubmitAdjustCh = <<>>
    /\ deadline = FALSE
    /\ kinds = PoWKinds
    /\ isPoW = FALSE
    /\ cliqueZero = FALSE
    /\ coinbaseSet = TRUE
    /\ noempty = FALSE
    /\ ttdReached = FALSE
    /\ simpleOrder \in BOOLEAN
    /\ nLocal = 0
    /\ configRecommit = minRecommitInterval
    /\ newWorker(TRUE)

NextLeader ==
    \/ newWorkLoopEx
    \/ MainNewWork
    \/ MainExit
    \/ CwCas
    \/ CwAcquire
    \/ CwRefresh
    \/ CwPrepare
    \/ CwExRound
    \/ CwExRoundDone
    \/ Tick
    \/ CexSeal
    \/ CexWrite
    \/ CexUpdate
    \/ CommitterBody
    \/ TaskExit
    \/ ApiStart
    \/ ApiStop
    \/ ApiClose
    \/ ExternalHead

SpecLeader == InitLeader /\ [][NextLeader]_vars

(***************************************************************************)
(* Claims on PoW mode (SpecPoW).                                           *)
(***************************************************************************)
\* The requests that are visible: those in newWorkCh and the one the main
\* loop has dequeued.
VisibleRequests ==
    { newWorkCh[i] : i \in 1..Len(newWorkCh) } \cup
    (IF mreq # NoReq THEN {mreq} ELSE {})

\* C1: an attempt whose committer returned true on NewHead pushes no task to
\* the task loop and leaves pendingTasks as it was: no task built after such
\* a return is sent on taskCh, received by the task loop, or stored in
\* pendingTasks.
C1_AbortedAttemptPushesNoTask ==
    /\ ~mtask.aborted
    /\ ~ttask.aborted
    /\ \A e \in pendingTasks : ~e.task.aborted

\* C2: whenever a request is visible (in newWorkCh or dequeued by the main
\* loop), every interrupt word allocated before its own holds a signal, and
\* the word allocated just before it holds the signal the request was issued
\* with; and right after the enqueue the request's own word reads None.
C2_PreviousInterruptSignalled ==
    /\ \A r \in VisibleRequests :
          /\ r.sig \in {commitInterruptNewHead, commitInterruptResubmit}
          /\ \A w \in 1..(r.interrupt - 1) : interrupts[w] # commitInterruptNone
          /\ r.interrupt > 1 => interrupts[r.interrupt - 1] = r.sig
    /\ dpc = "reset" => interrupts[dInterrupt] = commitInterruptNone

\* The committer works for the first request while the second, issued by the
\* timer with Resubmit, waits in newWorkCh.
C2_Witness ==
    /\ newWorkCh # <<>>
    /\ newWorkCh[1].interrupt = 2
    /\ newWorkCh[1].sig = commitInterruptResubmit
    /\ interrupts[1] = commitInterruptResubmit
    /\ mreq.interrupt = 1
    /\ cpc = "loop"

(***************************************************************************)
(* Claims on leader mode (SpecLeader).                                     *)
(***************************************************************************)
\* The main loop is inside commitWork, past its CompareAndSwap.
MainHolds ==
    mpc \in {"cw_acquire", "cw_refresh", "cw_prepare", "preseal", "preseal_send",
             "fill_local", "fill_local_wait", "fill_remote", "fill_remote_wait",
             "commit", "commit_send", "commit_update", "install", "ex_round",
             "ex_wait", "cex", "cex_write", "cex_update"}

\* The dispatcher is inside refreshPending(false) or commitSimple, past the
\* CompareAndSwap.
DispHolds == dpc \in {"rp_body", "cs_send", "cs_release"}

\* The main loop is building on an environment of prepareWork.
MainBuilds == mpc \in {"ex_round", "ex_wait", "cex", "cex_write", "cex_update"}

\* C4: at most one of commitWork, refreshPending(false) and commitSimple is
\* past its CompareAndSwap on busyMining, and the flag is 1 exactly while one
\* of them is.
C4_SingleFlight ==
    /\ ~(MainHolds /\ DispHolds)
    /\ busyMining = 1 <=> (MainHolds \/ DispHolds)
    /\ busyMining \in {0, 1}

\* The dispatcher reaches the CompareAndSwap of commitSimple while the main
\* loop is in a round of commitTransactionsEx.
C4_Witness ==
    /\ mpc = "ex_wait"
    /\ dpc = "cs_cas"
    /\ busyMining = 1

\* C5: in leader mode the block being prepared, sealed or written has the
\* height and the parent for which AcquireMiningToken answered true in this
\* attempt; without the token the attempt only refreshes the snapshot.
C5_BuildsOnlyOnGrantedToken ==
    /\ MainBuilds =>
          /\ mtoken # NoToken
          /\ work.number = mtoken.height
          /\ work.parent = mtoken.parent
    /\ mpc = "cw_refresh" => mtoken = NoToken

\* C6: when no build attempt is running, no mining token acquired by an
\* attempt is still held.
C6_TokenReleasedAtEnd ==
    mpc = "select" => token = NoToken

\* C7: no prefetcher is stopped twice, and when neither the main loop nor the
\* dispatcher is inside a handler every environment of makeEnv other than
\* w.current has had its prefetcher stopped; after the main loop has exited,
\* every one has.
C7_EveryEnvDiscardedOnce ==
    /\ \A id \in 1..Len(stops) : stops[id] <= 1
    /\ (mpc = "select" /\ dpc \in {"select", "exit"}) =>
          \A id \in 1..Len(stops) : id # current.id => stops[id] = 1
    /\ mpc = "exit" => \A id \in 1..Len(stops) : stops[id] = 1


(***************************************************************************)
(* The pending snapshot under snapshotMu.  updateSnapshot is called by the *)
(* main loop and by the leader dispatcher's refreshPending; pending,       *)
(* pendingBlock and pendingBlockAndReceipts are called from other          *)
(* goroutines.  Each field is written and read in a step of its own, so    *)
(* that only the lock keeps a reader from a half-written snapshot.         *)
(***************************************************************************)

\* sync.RWMutex: Lock waits for the writer and for every reader
Lock(mu) == mu.writer = "none" /\ mu.readers = {}

\* RLock that does not wait for the writer
RLockFree(mu) == TRUE

\* sync.RWMutex: RLock waits for the writer
RLock(mu) == mu.writer = "none"

\* The environment of publication p: one transaction, p, committed to it.
EnvOf(p) ==
    commitTransaction(InitGasPool(makeEnv(p, p - 1, FALSE)),
                      MkTx(p, [gas |-> TxGas, used |-> TxGas, err |-> Nil,
                               replay |-> FALSE])).env

\* What publication p stores; publication 0 is the zero value of the fields.
Published(p) == IF p = 0 THEN NoSnapshot ELSE updateSnapshot(EnvOf(p))

\* a goroutine calls updateSnapshot(env)
SnapCall ==
    \E w \in Writers :
        /\ swpc[w] = "idle"
        /\ nextPub <= MaxPubs
        /\ swenv' = [swenv EXCEPT ![w] = EnvOf(nextPub)]
        /\ nextPub' = nextPub + 1
        /\ swpc' = [swpc EXCEPT ![w] = "lock"]
        /\ UNCHANGED <<smu, srpc, srop, srgot, snapObj, nextObj, snapshot>>

\* w.snapshotMu.Lock()
SnapLock ==
    \E w \in Writers :
        /\ swpc[w] = "lock"
        /\ Lock(smu)
        /\ smu' = [smu EXCEPT !.writer = w]
        /\ swpc' = [swpc EXCEPT ![w] = "block"]
        /\ UNCHANGED <<swenv, nextPub, srpc, srop, srgot, snapObj, nextObj, snapshot>>

\* w.snapshotBlock = types.NewBlock(...)
SnapWriteBlock ==
    \E w \in Writers :
        /\ swpc[w] = "block"
        /\ snapshot' = [snapshot EXCEPT !.block = updateSnapshot(swenv[w]).block]
        /\ swpc' = [swpc EXCEPT ![w] = "receipts"]
        /\ UNCHANGED <<smu, swenv, nextPub, srpc, srop, srgot, snapObj, nextObj>>

\* w.snapshotReceipts = copyReceipts(env.receipts)
SnapWriteReceipts ==
    \E w \in Writers :
        /\ swpc[w] = "receipts"
        /\ snapshot' = [snapshot EXCEPT !.receipts = updateSnapshot(swenv[w]).receipts]
        /\ swpc' = [swpc EXCEPT ![w] = "state"]
        /\ UNCHANGED <<smu, swenv, nextPub, srpc, srop, srgot, snapObj, nextObj>>

\* w.snapshotState = env.state.Copy()
SnapWriteState ==
    \E w \in Writers :
        /\ swpc[w] = "state"
        /\ snapshot' = [snapshot EXCEPT !.state = updateSnapshot(swenv[w]).state]
        /\ snapObj' = nextObj
        /\ nextObj' = nextObj + 1
        /\ swpc' = [swpc EXCEPT ![w] = "unlock"]
        /\ UNCHANGED <<smu, swenv, nextPub, srpc, srop, srgot>>

\* the deferred w.snapshotMu.Unlock()
SnapUnlock ==
    \E w \in Writers :
        /\ swpc[w] = "unlock"
        /\ smu' = [smu EXCEPT !.writer = "none"]
        /\ swpc' = [swpc EXCEPT ![w] = "idle"]
        /\ swenv' = [swenv EXCEPT ![w] = NoEnv]
        /\ UNCHANGED <<nextPub, srpc, srop, srgot, snapObj, nextObj, snapshot>>

ReadOps == {"pending", "pendingBlock", "pendingBlockAndReceipts"}

\* another goroutine calls one of the three functions
ReadCall ==
    \E r \in Readers, op \in ReadOps :
        /\ srpc[r] = "idle"
        /\ nextObj <= MaxObjs
        /\ srop' = [srop EXCEPT ![r] = op]
        /\ srgot' = [srgot EXCEPT ![r] = NoRead]
        /\ srpc' = [srpc EXCEPT ![r] = "rlock"]
        /\ UNCHANGED <<smu, swpc, swenv, nextPub, snapObj, nextObj, snapshot>>

\* w.snapshotMu.RLock()
ReadRLock ==
    \E r \in Readers :
        /\ srpc[r] = "rlock"
        /\ RLock(smu)
        /\ smu' = [smu EXCEPT !.readers = @ \cup {r}]
        /\ srpc' = [srpc EXCEPT ![r] = IF srop[r] = "pending" THEN "check"
                                       ELSE "block"]
        /\ UNCHANGED <<swpc, swenv, nextPub, srop, srgot, snapObj, nextObj, snapshot>>

\* pending: if w.snapshotState == nil { return nil, nil }
ReadNilCheck ==
    \E r \in Readers :
        /\ srpc[r] = "check"
        /\ IF snapshot.state = NilState
           THEN /\ srgot' = [srgot EXCEPT ![r] = [NoRead EXCEPT !.read = {"block", "state"}]]
                /\ srpc' = [srpc EXCEPT ![r] = "runlock"]
           ELSE /\ srpc' = [srpc EXCEPT ![r] = "block"]
                /\ UNCHANGED srgot
        /\ UNCHANGED <<smu, swpc, swenv, nextPub, srop, snapObj, nextObj, snapshot>>

\* the read of w.snapshotBlock in the return statement
ReadBlock ==
    \E r \in Readers :
        /\ srpc[r] = "block"
        /\ srgot' = [srgot EXCEPT ![r].block = snapshot.block,
                                  ![r].read = @ \cup {"block"}]
        /\ srpc' = [srpc EXCEPT ![r] =
                        CASE srop[r] = "pending" -> "copy"
                          [] srop[r] = "pendingBlock" -> "runlock"
                          [] OTHER -> "receipts"]
        /\ UNCHANGED <<smu, swpc, swenv, nextPub, srop, snapObj, nextObj, snapshot>>

\* pendingBlockAndReceipts: the read of w.snapshotReceipts
ReadReceipts ==
    \E r \in Readers :
        /\ srpc[r] = "receipts"
        /\ srgot' = [srgot EXCEPT ![r].receipts = snapshot.receipts,
                                  ![r].read = @ \cup {"receipts"}]
        /\ srpc' = [srpc EXCEPT ![r] = "runlock"]
        /\ UNCHANGED <<smu, swpc, swenv, nextPub, srop, snapObj, nextObj, snapshot>>

\* pending: w.snapshotState.Copy(), a new StateDB object
ReadCopy ==
    \E r \in Readers :
        /\ srpc[r] = "copy"
        /\ srgot' = [srgot EXCEPT ![r].state = snapshot.state,
                                  ![r].obj = nextObj,
                                  ![r].read = @ \cup {"state"}]
        /\ nextObj' = nextObj + 1
        /\ srpc' = [srpc EXCEPT ![r] = "runlock"]
        /\ UNCHANGED <<smu, swpc, swenv, nextPub, srop, snapObj, snapshot>>

\* the deferred w.snapshotMu.RUnlock(); the caller keeps what was returned
ReadRUnlock ==
    \E r \in Readers :
        /\ srpc[r] = "runlock"
        /\ smu' = [smu EXCEPT !.readers = @ \ {r}]
        /\ srpc' = [srpc EXCEPT ![r] = "idle"]
        /\ UNCHANGED <<swpc, swenv, nextPub, srop, srgot, snapObj, nextObj, snapshot>>

\* Nothing but the snapshot and the lock moves.
NotSnapshot ==
    <<work, cVars, hVars, interrupts, resubmitAdjustCh, deadline, cfgVars, head,
      wVars, busyMining, current, pendingTasks, chVars, dVars, mVars, tVars,
      pVars, lVars, uVars, kVars, xVars>>

InitSnap ==
    /\ NoCall
    /\ rounds = 0
    /\ envCopy = NoEnv
    /\ pool = <<>>
    /\ interrupts = <<>>
    /\ resubmitAdjustCh = <<>>
    /\ deadline = FALSE
    /\ kinds = PoWKinds
    /\ isPoW = FALSE
    /\ cliqueZero = FALSE
    /\ coinbaseSet = TRUE
    /\ noempty = FALSE
    /\ ttdReached = FALSE
    /\ simpleOrder = FALSE
    /\ nLocal = 0
    /\ configRecommit = minRecommitInterval
    /\ newWorker(FALSE)

NextSnap ==
    /\ \/ SnapCall
       \/ SnapLock
       \/ SnapWriteBlock
       \/ SnapWriteReceipts
       \/ SnapWriteState
       \/ SnapUnlock
       \/ ReadCall
       \/ ReadRLock
       \/ ReadNilCheck
       \/ ReadBlock
       \/ ReadReceipts
       \/ ReadCopy
       \/ ReadRUnlock
    /\ UNCHANGED NotSnapshot

SpecSnap == InitSnap /\ [][NextSnap]_vars

\* C8: whatever a caller of pending, pendingBlock or pendingBlockAndReceipts
\* has read comes from one call of updateSnapshot (or from none), never from
\* two; and the state pending returns is another object than the stored one.
C8_SnapshotAtomic ==
    \A r \in Readers :
        /\ \E p \in 0..MaxPubs :
               /\ "block" \in srgot[r].read => srgot[r].block = Published(p).block
               /\ "receipts" \in srgot[r].read =>
                      srgot[r].receipts = Published(p).receipts
               /\ "state" \in srgot[r].read => srgot[r].state = Published(p).state
        /\ srgot[r].state # NilState =>
               /\ srgot[r].obj # snapObj
               /\ srgot[r].obj # 0
        /\ srpc[r] = "copy" => snapshot.state # NilState

\* a caller of pending has read block and state of the second publication or
\* a later one and still holds the read lock, while a caller of
\* updateSnapshot waits for the lock
C8_Witness ==
    \E r \in Readers, w \in Writers :
        /\ srop[r] = "pending"
        /\ srpc[r] = "runlock"
        /\ srgot[r].read = {"block", "state"}
        /\ srgot[r].block.number >= 2
        /\ swpc[w] = "lock"


(***************************************************************************)
(* Uncles.  A block is named by its hash; the blocks of the chain have the *)
(* hashes 1..MaxChain, block h on parent h - 1; a side block is a record   *)
(* [hash, parent], its parent hash 0 when no block of the chain has it.    *)
(***************************************************************************)
SideBlocks == [hash : (FirstSide)..(FirstSide + MaxSide - 1), parent : 0..MaxChain]

Hashes(blocks) == { b.hash : b \in blocks }

\* makeEnv: ancestors and family of the (at most 7) blocks down from the
\* parent; included are the uncles those blocks hold.
makeEnvFamily(parent, included) ==
    [parent |-> parent,
     ancestors |-> { h \in 1..parent : h + 7 > parent },
     family |-> { h \in 1..parent : h + 7 > parent } \cup included,
     uncles |-> {}]

\* A commitUncle that does not look for siblings.
commitUncleNoSibling(env, uncle) ==
    IF ~isPoW THEN [err |-> "no uncles", env |-> env]
    ELSE IF ttdReached THEN [err |-> "beacon", env |-> env]
    ELSE IF uncle.hash \in Hashes(env.uncles) THEN [err |-> "not unique", env |-> env]
    ELSE IF uncle.parent \notin env.ancestors THEN [err |-> "parent unknown", env |-> env]
    ELSE IF uncle.hash \in env.family THEN [err |-> "included", env |-> env]
    ELSE [err |-> Nil, env |-> [env EXCEPT !.uncles = @ \cup {uncle}]]

\* A commitUncle without the test of the consensus mode.
commitUncleAnyMode(env, uncle) ==
    IF ttdReached THEN [err |-> "beacon", env |-> env]
    ELSE IF uncle.hash \in Hashes(env.uncles) THEN [err |-> "not unique", env |-> env]
    ELSE IF env.parent = uncle.parent THEN [err |-> "sibling", env |-> env]
    ELSE IF uncle.parent \notin env.ancestors THEN [err |-> "parent unknown", env |-> env]
    ELSE IF uncle.hash \in env.family THEN [err |-> "included", env |-> env]
    ELSE [err |-> Nil, env |-> [env EXCEPT !.uncles = @ \cup {uncle}]]

commitUncle(env, uncle) ==
    IF ~isPoW THEN [err |-> "no uncles", env |-> env]
    ELSE IF ttdReached THEN [err |-> "beacon", env |-> env]
    ELSE IF uncle.hash \in Hashes(env.uncles) THEN [err |-> "not unique", env |-> env]
    ELSE IF env.parent = uncle.parent THEN [err |-> "sibling", env |-> env]
    ELSE IF uncle.parent \notin env.ancestors THEN [err |-> "parent unknown", env |-> env]
    ELSE IF uncle.hash \in env.family THEN [err |-> "included", env |-> env]
    ELSE [err |-> Nil, env |-> [env EXCEPT !.uncles = @ \cup {uncle}]]

\* prepareWork's commitUncles over the blocks of a map in the order the range
\* gives them
RECURSIVE commitUncles(_, _)
commitUncles(env, blocks) ==
    IF blocks = <<>> \/ Cardinality(env.uncles) = 2 THEN env
    ELSE commitUncles(commitUncle(env, Head(blocks)).env, Tail(blocks))

\* The orders in which a range over a map may give its entries.
RangeOrders(S) ==
    { q \in [1..Cardinality(S) -> S] :
        \A i, j \in 1..Cardinality(S) : i # j => q[i] # q[j] }

\* environment.copy: the three sets are cloned
copyUncles(env) ==
    [parent |-> env.parent, ancestors |-> env.ancestors, family |-> env.family,
     uncles |-> { u \in env.uncles : TRUE }]

\* prepareWork: makeEnv on a parent, then the local, then the remote
\* candidates unless genParams.noUncle.  commitWork installs the environment
\* as w.current; generateWork (the other caller) uses and drops it.
UnclePrepare ==
    /\ \E parent \in 1..MaxChain, included \in SUBSET {FirstSide},
          noUncle \in BOOLEAN, ol \in RangeOrders(localUncles),
          or \in RangeOrders(remoteUncles) :
          LET env == makeEnvFamily(parent, included)
              filled == IF noUncle THEN env
                        ELSE commitUncles(commitUncles(env, ol), or)
          IN  IF noUncle
              THEN ucopy' = filled /\ UNCHANGED uenv
              ELSE uenv' = filled /\ UNCHANGED ucopy
    /\ UNCHANGED <<localUncles, remoteUncles>>

\* mainLoop, case ev := <-w.chainSideCh
UncleSide ==
    /\ \E b \in SideBlocks, local \in BOOLEAN :
          IF b.hash \in Hashes(localUncles) \cup Hashes(remoteUncles)
          THEN UNCHANGED uVars
          ELSE /\ localUncles' = IF local THEN localUncles \cup {b} ELSE localUncles
               /\ remoteUncles' = IF local THEN remoteUncles ELSE remoteUncles \cup {b}
               /\ IF /\ running
                     /\ uenv # NoUncleEnv
                     /\ Cardinality(uenv.uncles) < 2
                     /\ commitUncle(uenv, b).err = Nil
                  THEN /\ uenv' = commitUncle(uenv, b).env
                       /\ ucopy' = copyUncles(commitUncle(uenv, b).env)
                  ELSE UNCHANGED <<uenv, ucopy>>

InitUncle ==
    /\ NoCall
    /\ rounds = 0
    /\ envCopy = NoEnv
    /\ pool = <<>>
    /\ interrupts = <<>>
    /\ resubmitAdjustCh = <<>>
    /\ deadline = FALSE
    /\ kinds = PoWKinds
    /\ isPoW \in BOOLEAN
    /\ cliqueZero = FALSE
    /\ coinbaseSet = TRUE
    /\ noempty = FALSE
    /\ ttdReached \in BOOLEAN
    /\ simpleOrder = FALSE
    /\ nLocal = 0
    /\ configRecommit = minRecommitInterval
    /\ newWorker(FALSE)

NextUncle ==
    \/ UnclePrepare /\ UNCHANGED <<work, cVars, hVars, interrupts, resubmitAdjustCh,
                                   deadline, cfgVars, head, wVars, busyMining,
                                   current, pendingTasks, snapshot, chVars, dVars,
                                   mVars, tVars, pVars, lVars, sVars, kVars, xVars>>
    \/ UncleSide /\ UNCHANGED <<work, cVars, hVars, interrupts, resubmitAdjustCh,
                                deadline, cfgVars, head, wVars, busyMining,
                                current, pendingTasks, snapshot, chVars, dVars,
                                mVars, tVars, pVars, lVars, sVars, kVars, xVars>>
    \/ ApiStart
    \/ ApiStop

SpecUncle == InitUncle /\ [][NextUncle]_vars

\* C11: an environment holds at most two uncles, and each uncle it holds has
\* its parent among the environment's ancestors, is not of the family and is
\* no sibling of the block being built.
C11_UnclesAccepted ==
    \A env \in {uenv, ucopy} :
        /\ Cardinality(env.uncles) <= 2
        /\ \A u \in env.uncles :
              /\ u.parent \in env.ancestors
              /\ u.hash \notin env.family
              /\ u.parent # env.parent

\* w.current holds two uncles, a local and a remote one, the second admitted
\* on a side-chain event (the copy handed to commitEx holds both), while a
\* third candidate is known.
C11_Witness ==
    /\ Cardinality(uenv.uncles) = 2
    /\ ucopy = uenv
    /\ uenv.uncles \cap localUncles # {}
    /\ uenv.uncles \cap remoteUncles # {}
    /\ Cardinality(localUncles \cup remoteUncles) = 3


(***************************************************************************)
(* The task loop step by step, the engine and the result loop.  A sealed   *)
(* block has the seal hash of the block it was sealed from, so a result is *)
(* named by that hash.                                                     *)
(***************************************************************************)
TaskBlocks ==
    { [number |-> n, parent |-> n - 1, txs |-> t, uncles |-> {}] :
        n \in 1..MaxTaskNum, t \in {<<>>, <<1>>} }

Keys(tasks) == { e.hash : e \in tasks }

\* An interrupt that closes nothing.
interruptNothing(ss, k) == ss

\* interrupt(): if stopCh != nil { close(stopCh); stopCh = nil }
interrupt(ss, k) == IF k = 0 THEN ss ELSE [ss EXCEPT ![k].stopped = TRUE]

NotTaskB ==
    <<work, cVars, hVars, interrupts, resubmitAdjustCh, deadline, cfgVars,
      wVars, busyMining, current, snapshot, chVars, dVars, mVars, pVars, lVars,
      sVars, uVars, x0Vars>>
NotTask == <<NotTaskB, bVars>>

\* case task := <-w.taskCh
TkRecv ==
    /\ tpc = "select"
    /\ Len(seals) < MaxSeals
    /\ \E b \in TaskBlocks : ttask' = [NoTask EXCEPT !.block = b]
    /\ tpc' = "dedup"
    /\ UNCHANGED <<tprev, tstop, pendingTasks, head, kVars, NotTask>>

\* if sealHash == prev { continue }; interrupt(); stopCh, prev = make(chan struct{}), sealHash
TkDedup ==
    /\ tpc = "dedup"
    /\ IF SealHash(ttask.block) = tprev
       THEN /\ tpc' = "select"
            /\ ttask' = NoTask
            /\ UNCHANGED <<tprev, tstop, seals, kstop>>
       ELSE /\ seals' = Append(interrupt(seals, kstop),
                               [hash |-> SealHash(ttask.block), stopped |-> FALSE,
                                called |-> "no", delivered |-> FALSE])
            /\ kstop' = Len(seals) + 1
            /\ tprev' = SealHash(ttask.block)
            /\ tstop' = TRUE
            /\ tpc' = "insert"
            /\ UNCHANGED ttask
    /\ UNCHANGED <<pendingTasks, head, resultCh, rlast, pruned, NotTask>>

\* w.pendingTasks[sealHash] = task, under pendingMu
TkInsert ==
    /\ tpc = "insert"
    /\ pendingTasks' = InsertTask(pendingTasks, SealHash(ttask.block), ttask)
    /\ tpc' = "seal"
    /\ UNCHANGED <<ttask, tprev, tstop, head, kVars, NotTask>>

\* w.engine.Seal(w.chain, task.block, w.resultCh, stopCh)
TkSeal ==
    /\ tpc = "seal"
    /\ \E ok \in SealOutcomes :
          /\ seals' = [seals EXCEPT ![kstop].called = IF ok THEN "ok" ELSE "err"]
          /\ tpc' = IF ok THEN "select" ELSE "delete"
          /\ ttask' = IF ok THEN NoTask ELSE ttask
    /\ UNCHANGED <<tprev, tstop, pendingTasks, head, kstop, resultCh, rlast, pruned,
                   NotTask>>

\* delete(w.pendingTasks, sealHash), under pendingMu
TkDelete ==
    /\ tpc = "delete"
    /\ pendingTasks' = DeleteTask(pendingTasks, SealHash(ttask.block))
    /\ tpc' = "select"
    /\ ttask' = NoTask
    /\ UNCHANGED <<tprev, tstop, head, kVars, NotTask>>

\* case <-w.exitCh: interrupt(); return
TkExit ==
    /\ tpc = "select"
    /\ exited
    /\ seals' = interrupt(seals, kstop)
    /\ kstop' = 0
    /\ tstop' = FALSE
    /\ tpc' = "exit"
    /\ UNCHANGED <<ttask, tprev, pendingTasks, head, resultCh, rlast, pruned, NotTask>>

\* The blocks an engine may make of one sealed header: one per nonce.  A nil
\* result has no header.
MaxNonce == 2
Nonces == 1..MaxNonce
NilResult == [seal |-> NoBlock, nonce |-> 0]

\* The engine sends the result of a Seal call that returned nil and whose stop
\* channel is open: a sealed block, or nil.
EngineDeliver ==
    /\ Len(resultCh) < resultQueueSize
    /\ \E k \in 1..Len(seals) :
          /\ seals[k].called = "ok"
          /\ ~seals[k].stopped
          /\ ~seals[k].delivered
          /\ seals' = [seals EXCEPT ![k].delivered = TRUE]
          /\ \E r \in {NilResult} \cup {[seal |-> seals[k].hash, nonce |-> n] : n \in Nonces} :
                resultCh' = Append(resultCh, r)
    /\ UNCHANGED <<tpc, ttask, tprev, tstop, pendingTasks, head, kstop, rlast, pruned,
                   NotTask>>

\* The chain obtains a block that waits in resultCh from somewhere else.
ChainImport ==
    /\ \E k \in 1..Len(resultCh) :
          /\ resultCh[k] # NilResult
          /\ resultCh[k] \notin chainHas
          /\ chainHas' = chainHas \cup {resultCh[k]}
    /\ UNCHANGED <<tpc, ttask, tprev, tstop, pendingTasks, head, kVars, oplog, NotTaskB>>

\* A handler that posts and inserts whatever WriteBlockAndSetHead returned.
resultLoopHandleNoErrCheck(block, chain, tasks, writeOk) ==
    IF block = NilResult \/ block \in chain THEN [lookup |-> FALSE, ops |-> <<>>]
    ELSE IF SealHash(block.seal) \notin Keys(tasks) THEN [lookup |-> TRUE, ops |-> <<>>]
    ELSE [lookup |-> TRUE,
          ops |-> <<[op |-> "write", hash |-> block, ok |-> writeOk],
                    [op |-> "post", hash |-> block, ok |-> TRUE],
                    [op |-> "insert", hash |-> block, ok |-> TRUE]>>]

\* A handler that does not ask the chain for the block.
resultLoopHandleNoHasBlock(block, chain, tasks, writeOk) ==
    IF block = NilResult THEN [lookup |-> FALSE, ops |-> <<>>]
    ELSE IF SealHash(block.seal) \notin Keys(tasks) THEN [lookup |-> TRUE, ops |-> <<>>]
    ELSE IF ~writeOk
    THEN [lookup |-> TRUE, ops |-> <<[op |-> "write", hash |-> block, ok |-> FALSE]>>]
    ELSE [lookup |-> TRUE,
          ops |-> <<[op |-> "write", hash |-> block, ok |-> TRUE],
                    [op |-> "post", hash |-> block, ok |-> TRUE],
                    [op |-> "insert", hash |-> block, ok |-> TRUE]>>]

(* The body of the resultCh case: the three short circuits, then           *)
(* WriteBlockAndSetHead, mux.Post(NewMinedBlockEvent) and                  *)
(* unconfirmed.Insert; an error of the write ends the case.  The result is *)
(* whether pendingTasks was looked up, and the calls made.                 *)
resultLoopHandle(block, chain, tasks, writeOk) ==
    IF block = NilResult THEN [lookup |-> FALSE, ops |-> <<>>]
    ELSE IF block \in chain THEN [lookup |-> FALSE, ops |-> <<>>]
    ELSE IF SealHash(block.seal) \notin Keys(tasks) THEN [lookup |-> TRUE, ops |-> <<>>]
    ELSE IF ~writeOk
    THEN [lookup |-> TRUE, ops |-> <<[op |-> "write", hash |-> block, ok |-> FALSE]>>]
    ELSE [lookup |-> TRUE,
          ops |-> <<[op |-> "write", hash |-> block, ok |-> TRUE],
                    [op |-> "post", hash |-> block, ok |-> TRUE],
                    [op |-> "insert", hash |-> block, ok |-> TRUE]>>]

\* resultLoop, case block := <-w.resultCh
ResHandle ==
    /\ resultCh # <<>>
    /\ resultCh' = Tail(resultCh)
    /\ \E writeOk \in BOOLEAN :
          LET block == Head(resultCh)
              r == resultLoopHandle(block, chainHas, pendingTasks, writeOk)
              wrote == r.ops # <<>> /\ r.ops[1].ok
          IN  /\ rlast' = IF r.lookup
                          THEN [hash |-> block.seal,
                                exist |-> SealHash(block.seal) \in Keys(pendingTasks)]
                          ELSE rlast
              /\ oplog' = oplog \o r.ops
              /\ chainHas' = IF wrote THEN chainHas \cup {block} ELSE chainHas
              /\ head' = IF wrote /\ block.seal.number > head
                         THEN block.seal.number ELSE head
    /\ UNCHANGED <<tpc, ttask, tprev, tstop, pendingTasks, seals, kstop, pruned,
                   NotTaskB>>

\* The numbers the dispatcher calls clearPending with: the head's.
PruneNumbers == {staleThreshold, staleThreshold + MaxTaskNum}

\* clearPending(number), called by the dispatcher on a start or chain-head event
TkPrune ==
    /\ \E number \in PruneNumbers :
          /\ pendingTasks' = clearPending(pendingTasks, number)
          /\ pruned' = pruned \cup (Keys(pendingTasks) \ Keys(clearPending(pendingTasks, number)))
    /\ UNCHANGED <<tpc, ttask, tprev, tstop, head, seals, kstop, resultCh, rlast,
                   NotTask>>

InitTask ==
    /\ NoCall
    /\ rounds = 0
    /\ envCopy = NoEnv
    /\ pool = <<>>
    /\ interrupts = <<>>
    /\ resubmitAdjustCh = <<>>
    /\ deadline = FALSE
    /\ kinds = PoWKinds
    /\ isPoW = TRUE
    /\ cliqueZero = FALSE
    /\ coinbaseSet = TRUE
    /\ noempty = FALSE
    /\ ttdReached = FALSE
    /\ simpleOrder = FALSE
    /\ nLocal = 0
    /\ configRecommit = minRecommitInterval
    /\ newWorker(FALSE)

NextTask ==
    \/ TkRecv
    \/ TkDedup
    \/ TkInsert
    \/ TkSeal
    \/ TkDelete
    \/ TkExit
    \/ EngineDeliver
    \/ ChainImport
    \/ ResHandle
    \/ TkPrune
    \/ ApiClose

SpecTask == InitTask /\ [][NextTask]_vars

\* C12: every entry of pendingTasks is stored under the seal hash of the
\* block of the task it holds.
C12_KeyIsSealHash ==
    \A e \in pendingTasks : e.hash = SealHash(e.task.block)

\* Two tasks are pending, one of them a block with a transaction, after three
\* seal operations.
C12_Witness ==
    /\ Cardinality(pendingTasks) = 2
    /\ \E e \in pendingTasks : e.task.block.txs # <<>>
    /\ Len(seals) = 3

\* A Seal call of the task loop that is under way.
Outstanding(k) == seals[k].called = "ok" /\ ~seals[k].stopped

\* C13: no two Seal calls of the task loop for one seal hash are under way at
\* a time; when Seal has been called with a stop channel, every stop channel
\* made before it is closed; and a task with the seal hash of the task
\* accepted last is dropped: no stop channel is closed or made for it.
C13_OneSealPerHash ==
    /\ [](/\ \A i, j \in 1..Len(seals) :
                (i # j /\ Outstanding(i) /\ Outstanding(j)) =>
                    seals[i].hash # seals[j].hash
          /\ \A j \in 1..Len(seals) :
                seals[j].called # "no" => \A i \in 1..(j - 1) : seals[i].stopped)
    /\ [][(tpc = "dedup" /\ tpc' # tpc /\ SealHash(ttask.block) = tprev) =>
             (seals' = seals /\ kstop' = kstop /\ pendingTasks' = pendingTasks
              /\ tpc' = "select")]_vars

\* A task arrives with the seal hash of the task whose seal, the second of the
\* run, is under way.
C13_Witness ==
    /\ tpc = "dedup"
    /\ SealHash(ttask.block) = tprev
    /\ Len(seals) = 2
    /\ kstop = 2
    /\ Outstanding(2)

\* The entry of a seal hash is in pendingTasks when Seal is called for it,
\* unless it was pruned.
InsertedBeforeSeal ==
    tpc = "seal" => seals[kstop].hash \in Keys(pendingTasks) \cup pruned

\* A step takes an entry out of pendingTasks only as clearPending or as the
\* delete after the Seal call of that seal hash returned an error.
RemovedOnlyAfterError ==
    \A h \in Keys(pendingTasks) \ Keys(pendingTasks') :
        \/ h \in pruned' /\ tpc' = tpc
        \/ tpc = "delete" /\ seals[kstop].called = "err" /\ seals[kstop].hash = h

\* C14: the insert comes before Seal, an entry goes only by
\* clearPending or after its Seal returned an error, and a result the engine
\* delivered finds its entry unless it was pruned.
C14_ResultFindsEntry ==
    /\ [](InsertedBeforeSeal /\ (rlast.exist \/ rlast.hash \in pruned))
    /\ [][RemovedOnlyAfterError]_vars

\* The calls a step of the result loop adds to the log.
NewOps == SubSeq(oplog', Len(oplog) + 1, Len(oplog'))
OpsOf(kind) == { k \in 1..Len(oplog) : oplog[k].op = kind }

\* C21: NewMinedBlockEvent is posted and the block inserted into the
\* unconfirmed set only after WriteBlockAndSetHead succeeded for that block,
\* at most once per block hash; when the write fails neither happens, and a
\* result is written at most once.
C21_PostAfterWrite ==
    /\ [](\A kind \in {"post", "insert"} : \A i, j \in OpsOf(kind) :
             oplog[i].hash = oplog[j].hash => i = j)
    /\ [][oplog' # oplog =>
            /\ NewOps[1].op = "write"
            /\ \A k \in 2..Len(NewOps) : NewOps[k].op # "write"
            /\ IF NewOps[1].ok
               THEN /\ Len(NewOps) = 3
                    /\ NewOps[2].op = "post" /\ NewOps[2].hash = NewOps[1].hash
                    /\ NewOps[3].op = "insert" /\ NewOps[3].hash = NewOps[1].hash
               ELSE Len(NewOps) = 1]_vars

C21_Witness ==
    /\ Len(oplog) = 4
    /\ oplog[1].op = "write" /\ ~oplog[1].ok
    /\ oplog[2].op = "write" /\ oplog[2].ok /\ oplog[2].hash = oplog[1].hash
    /\ oplog[4].op = "insert"
    /\ resultCh = <<>>

\* C22: the result loop writes a block only if it is non-nil, not in the
\* chain and pendingTasks has an entry under its seal hash; otherwise the
\* result is dropped: no write, no event, no insert, pendingTasks unchanged.
C22_WriteOnlyKnownTask ==
    [][(resultCh # <<>> /\ resultCh' = Tail(resultCh)) =>
         LET block == Head(resultCh)
             fit == /\ block # NilResult
                    /\ block \notin chainHas
                    /\ SealHash(block.seal) \in Keys(pendingTasks)
         IN  /\ pendingTasks' = pendingTasks
             /\ IF fit
                THEN oplog' # oplog /\ NewOps[1] \in
                       {[op |-> "write", hash |-> block, ok |-> o] : o \in BOOLEAN}
                ELSE oplog' = oplog /\ chainHas' = chainHas /\ head' = head]_vars

\* Results of all four kinds have been handled: nil, known, without a
\* task, written.
C22_Witness ==
    /\ resultCh = <<>>
    /\ Len(seals) = 3 /\ \A k \in 1..3 : seals[k].delivered
    /\ Cardinality(OpsOf("write")) = 1
    /\ chainHas # {}
    /\ ~rlast.exist

(***************************************************************************)
(* The resubmit interval of the PoW dispatcher: explicit updates through   *)
(* setRecommitInterval and the feedback of the committer.                  *)
(***************************************************************************)
MaxAdjusts == 3
UserIntervals == {Millis(500), Millis(1000), Millis(3000), Millis(20000)}
Ratios == {100, 200, 300, 1000}
Feedbacks == {[ratio |-> r, inc |-> TRUE] : r \in Ratios} \cup {[ratio |-> 0, inc |-> FALSE]}

\* recalcRecommit with the bias left out of the increase.
recalcRecommitNoBias(minR, prev, target, inc) ==
    LET keep == DMul(prev, RatioScale - intervalAdjustRatio)
    IN  IF inc
        THEN LET next == DDiv(DAdd(keep, DMul(target, intervalAdjustRatio)), RatioScale)
             IN  IF DLess(maxRecommitInterval, next) THEN maxRecommitInterval ELSE next
        ELSE LET next == DDiv(DAdd(keep, DMul(DSub(target, intervalAdjustBias),
                                              intervalAdjustRatio)), RatioScale)
             IN  IF DLess(next, minR) THEN minR ELSE next

(* recalcRecommit.  The clamp is applied to the float and the result is   *)
(* truncated; both bounds are whole numbers of nanoseconds, so clamping    *)
(* the truncated value gives the same duration.  target is the integer     *)
(* part of the float target, which leaves the truncated result unchanged.  *)
recalcRecommit(minR, prev, target, inc) ==
    LET prevF == prev
        keep == DMul(prevF, RatioScale - intervalAdjustRatio)
    IN  IF inc
        THEN LET next == DDiv(DAdd(keep, DMul(DAdd(target, intervalAdjustBias),
                                              intervalAdjustRatio)), RatioScale)
             IN  IF DLess(maxRecommitInterval, next) THEN maxRecommitInterval ELSE next
        ELSE LET next == DDiv(DAdd(keep, DMul(DSub(target, intervalAdjustBias),
                                              intervalAdjustRatio)), RatioScale)
             IN  IF DLess(next, minR) THEN minR ELSE next

NotRecommit ==
    <<work, cVars, hVars, interrupts, deadline, cfgVars, head, wVars, busyMining,
      current, pendingTasks, snapshot, chVars, dVars, mVars, tVars, pVars, lVars,
      sVars, uVars, kVars, configRecommit, zVars, gVars, qVars, bVars, prepared>>

\* setRecommitInterval hands an interval over; case interval := <-w.resubmitIntervalCh
RcInterval ==
    /\ dpc = "select"
    /\ nadjust + Len(resubmitAdjustCh) < MaxAdjusts
    /\ \E interval \in UserIntervals :
         /\ minRecommit' = Sanitize(interval)
         /\ recommit' = Sanitize(interval)
    /\ radjust' = [kind |-> "interval", ratio |-> 0, inc |-> FALSE, before |-> recommit]
    /\ nadjust' = nadjust + 1
    /\ UNCHANGED <<resubmitAdjustCh, NotRecommit>>

\* w.resubmitAdjustCh <- &intervalAdjust{ratio, inc}, by the committer
RcFeedback ==
    /\ nadjust + Len(resubmitAdjustCh) < MaxAdjusts
    /\ Len(resubmitAdjustCh) < resubmitAdjustChanSize
    /\ \E adjust \in Feedbacks : resubmitAdjustCh' = Append(resubmitAdjustCh, adjust)
    /\ UNCHANGED <<recommit, minRecommit, nadjust, radjust, NotRecommit>>

\* case adjust := <-w.resubmitAdjustCh
RcAdjust ==
    /\ dpc = "select"
    /\ resubmitAdjustCh # <<>>
    /\ LET adjust == Head(resubmitAdjustCh)
       IN  /\ recommit' =
                IF adjust.inc
                THEN LET target == DDiv(DMul(recommit, RatioUnit), adjust.ratio)
                     IN  recalcRecommit(minRecommit, recommit, target, TRUE)
                ELSE recalcRecommit(minRecommit, recommit, minRecommit, FALSE)
           /\ radjust' = [kind |-> "adjust", ratio |-> adjust.ratio,
                          inc |-> adjust.inc, before |-> recommit]
    /\ resubmitAdjustCh' = Tail(resubmitAdjustCh)
    /\ nadjust' = nadjust + 1
    /\ UNCHANGED <<minRecommit, NotRecommit>>

InitRecommit ==
    /\ NoCall
    /\ rounds = 0
    /\ envCopy = NoEnv
    /\ pool = <<>>
    /\ interrupts = <<>>
    /\ resubmitAdjustCh = <<>>
    /\ deadline = FALSE
    /\ kinds = {"ok"}
    /\ isPoW = TRUE
    /\ cliqueZero = FALSE
    /\ coinbaseSet = TRUE
    /\ noempty = FALSE
    /\ ttdReached = FALSE
    /\ simpleOrder = FALSE
    /\ nLocal = 0
    /\ configRecommit \in UserIntervals
    /\ newWorker(FALSE)

NextRecommit ==
    \/ RcInterval
    \/ RcFeedback
    \/ RcAdjust
    \/ ApiClose
    \/ DispExit

SpecRecommit == InitRecommit /\ [][NextRecommit]_vars

\* C15: in the PoW dispatcher the resubmit interval stays within its bounds
\* after any sequence of interval updates and feedbacks: minRecommit <=
\* recommit <= maxRecommitInterval, with minRecommit at least one second.
C15_RecommitWithinBounds ==
    /\ ~DLess(minRecommit, minRecommitInterval)
    /\ ~DLess(recommit, minRecommit)
    /\ ~DLess(maxRecommitInterval, recommit)

\* The interval the statement gives for a feedback, in whole nanoseconds:
\* nine tenths of the interval plus one tenth of (interval / r + 200 ms), at
\* most 15 s; or nine tenths plus one tenth of (minRecommit - 200 ms), at
\* least minRecommit.
StatedNext(adjust, prev, minR) ==
    IF adjust.inc
    THEN LET raw == DDiv(DAdd(DMul(prev, 9),
                              DAdd(DDiv(DMul(prev, 1000), adjust.ratio), Millis(200))), 10)
         IN  IF DLess(Millis(15000), raw) THEN Millis(15000) ELSE raw
    ELSE LET raw == DDiv(DAdd(DMul(prev, 9), DSub(minR, Millis(200))), 10)
         IN  IF DLess(raw, minR) THEN minR ELSE raw

\* C16: a feedback {ratio r, inc = true} sets the interval to
\* min(15 s, 0.9 * recommit + 0.1 * (recommit / r + 200 ms)) and a feedback
\* {inc = false} to max(minRecommit, 0.9 * recommit + 0.1 * (minRecommit -
\* 200 ms)), truncated to whole nanoseconds; with recommit = 3 s and
\* r = 0.2 the result is 4.22 s, whatever minRecommit is.
C16_RecalcArithmetic ==
    [][(resubmitAdjustCh # <<>> /\ resubmitAdjustCh' = Tail(resubmitAdjustCh)) =>
         /\ recommit' = StatedNext(Head(resubmitAdjustCh), recommit, minRecommit)
         /\ minRecommit' = minRecommit
         /\ (/\ recommit = Millis(3000)
             /\ Head(resubmitAdjustCh) = [ratio |-> 200, inc |-> TRUE])
            => recommit' = Millis(4220)]_vars

C16_Witness ==
    /\ radjust = [kind |-> "adjust", ratio |-> 200, inc |-> TRUE, before |-> Millis(3000)]
    /\ minRecommit = Millis(3000)
    /\ recommit = Millis(4220)

(***************************************************************************)
(* Shutdown in leader mode: close() closes exitCh and waits for the four   *)
(* loops.                                                                  *)
(***************************************************************************)
NotShutdown ==
    <<work, cVars, hVars, interrupts, resubmitAdjustCh, deadline, cfgVars, head,
      wVars, busyMining, current, pendingTasks, snapshot, chVars, dVars, mVars,
      tVars, pVars, lVars, sVars, uVars, kVars, rVars, gVars, qVars, bVars, prepared>>

\* resultLoop: case <-w.exitCh: return
ResExit ==
    /\ rpc = "select"
    /\ exited
    /\ rpc' = "exit"
    /\ UNCHANGED <<closeReturned, NotShutdown>>

\* close(): w.wg.Wait() returns once the four loops have called wg.Done()
CloseWait ==
    /\ exited
    /\ ~closeReturned
    /\ mpc = "exit" /\ dpc = "exit" /\ tpc = "exit" /\ rpc = "exit"
    /\ closeReturned' = TRUE
    /\ UNCHANGED <<rpc, NotShutdown>>

InitShutdown ==
    /\ NoCall
    /\ rounds = 0
    /\ envCopy = NoEnv
    /\ pool = <<AccountList(1, 1, 1)>>
    /\ interrupts = <<>>
    /\ resubmitAdjustCh = <<>>
    /\ deadline = FALSE
    /\ kinds = PoWKinds
    /\ isPoW = FALSE
    /\ cliqueZero = FALSE
    /\ coinbaseSet = TRUE
    /\ noempty = FALSE
    /\ ttdReached = FALSE
    /\ simpleOrder = FALSE
    /\ nLocal = 0
    /\ configRecommit = minRecommitInterval
    /\ newWorker(TRUE)

\* The steps of the main loop in leader mode.
mainLoopEx ==
    \/ MainNewWork
    \/ MainExit
    \/ CwCas
    \/ CwAcquire
    \/ CwRefresh
    \/ CwPrepare
    \/ CwExRound
    \/ CwExRoundDone
    \/ CexSeal
    \/ CexWrite
    \/ CexUpdate
    \/ CommitterBody

(* Every goroutine keeps running, and a select whose exit case is ready    *)
(* again and again takes it at some point: the choice among the ready      *)
(* cases of a select is random.  The clock reaches the deadline of a       *)
(* round.                                                                  *)
FairShutdown ==
    /\ WF_vars(Tick)
    /\ WF_vars(newWorkLoopEx)
    /\ WF_vars(mainLoopEx)
    /\ SF_vars(DispExit)
    /\ SF_vars(MainExit)
    /\ WF_vars(TaskExit)
    /\ WF_vars(ResExit)
    /\ WF_vars(CloseWait)

NextShutdown ==
    \/ newWorkLoopEx
    \/ mainLoopEx
    \/ Tick
    \/ TaskExit
    \/ ResExit
    \/ ApiStart
    \/ ApiClose
    \/ CloseWait
    \/ ExternalHead

SpecShutdown == InitShutdown /\ [][NextShutdown]_vars /\ FairShutdown

\* C17: after close() has closed exitCh the four loops return and close()
\* returns from wg.Wait(), whatever send or receive each loop was performing.
C17_ShutdownCompletes == exited ~> closeReturned

(***************************************************************************)
(* getSealingBlock: the request through getWorkCh, generateWork in the     *)
(* main loop, the reply through req.result.  A block of the chain has its  *)
(* number n, the hash n + 1 and the time ChainTime(n); the zero hash is 0. *)
(***************************************************************************)
ZeroHash == 0
MaxStamp == 3
Stamps == 2..MaxStamp
Randoms == {ZeroHash, 1}
Extras == {<<>>, <<1>>}
ChainHash(n) == n + 1
ChainTime(n) == n + 2
ParentHashes == ZeroHash..ChainHash(MaxHead)

\* w.chain.GetBlockByHash(hash): the number of the block, -1 for nil
GetBlockByHash(hash) == IF hash \in 1..ChainHash(head) THEN hash - 1 ELSE -1

\* The parent prepareWork builds on: the head, or the block of the hash given.
ParentOf(genParams) ==
    IF genParams.parentHash # ZeroHash THEN GetBlockByHash(genParams.parentHash)
    ELSE head

\* A prepareWork that lets a timestamp equal to the parent's pass.
prepareWorkStrictLess(genParams, now, extra, engine, ol, or) ==
    LET parent == ParentOf(genParams)
        given == genParams.timestamp
        timestamp == IF ~isPoW THEN now
                     ELSE IF ChainTime(parent) > given THEN ChainTime(parent) + 1
                     ELSE given
        header == [parentHash |-> ChainHash(parent),
                   number |-> parent + 1,
                   time |-> timestamp,
                   extra |-> <<>>,
                   mixDigest |-> genParams.random]
    IN  IF parent = -1 THEN [err |-> "missing parent", work |-> NilBlock]
        ELSE IF isPoW /\ ChainTime(parent) > given /\ genParams.forceTime
        THEN [err |-> "invalid timestamp", work |-> NilBlock]
        ELSE IF engine # "ok" THEN [err |-> engine, work |-> NilBlock]
        ELSE [err |-> Nil, work |-> <<[header |-> header, uncles |-> {}]>>]

(* prepareWork up to the uncles: the parent, the timestamp, the header.    *)
(* now is what timeIt makes of the clock, extra is w.extra, engine is the  *)
(* outcome of engine.Prepare and makeEnv.                                  *)
prepareWork(genParams, now, extra, engine, ol, or) ==
    LET parent == IF genParams.parentHash # ZeroHash
                  THEN GetBlockByHash(genParams.parentHash)
                  ELSE head
        given == genParams.timestamp
        timestamp == IF ~isPoW THEN now
                     ELSE IF ChainTime(parent) >= given THEN ChainTime(parent) + 1
                     ELSE given
        header == [parentHash |-> ChainHash(parent),
                   number |-> parent + 1,
                   time |-> timestamp,
                   extra |-> IF ~genParams.noExtra /\ Len(extra) # 0 THEN extra ELSE <<>>,
                   mixDigest |-> IF genParams.random # ZeroHash THEN genParams.random
                                 ELSE ZeroHash]
        env == makeEnvFamily(parent + 1, {})
        uncles == IF ~genParams.noUncle
                  THEN commitUncles(commitUncles(env, ol), or).uncles
                  ELSE {}
    IN  IF parent = -1 THEN [err |-> "missing parent", work |-> NilBlock]
        ELSE IF isPoW /\ ChainTime(parent) >= given /\ genParams.forceTime
        THEN [err |-> "invalid timestamp", work |-> NilBlock]
        ELSE IF engine # "ok" THEN [err |-> engine, work |-> NilBlock]
        ELSE [err |-> Nil, work |-> <<[header |-> header, uncles |-> uncles]>>]

\* What engine.Prepare, makeEnv and engine.FinalizeAndAssemble come to.
EngineOutcomes == {"ok", "prepare", "makeEnv"}
AssembleOutcomes == {"ok", "assemble"}
GenerateErrors ==
    {"missing parent", "invalid timestamp", "prepare", "makeEnv", "assemble"}

\* generateWork: prepareWork, fillTransactions, FinalizeAndAssemble
generateWork(params, now, extra, engine, assemble, ol, or) ==
    LET r == prepareWork(params, now, extra, engine, ol, or)
    IN  IF r.err # Nil THEN [block |-> NilBlock, err |-> r.err]
        ELSE IF assemble # "ok" THEN [block |-> NilBlock, err |-> assemble]
        ELSE [block |-> r.work, err |-> Nil]

\* A return that drops req.err.
getSealingBlockReturnNoErr(block, err) == [block |-> block, err |-> Nil]

\* block := <-req.result; if block == nil { return nil, req.err }; return block, nil
getSealingBlockReturn(block, err) ==
    IF block = NilBlock THEN [block |-> NilBlock, err |-> err]
    ELSE [block |-> block, err |-> Nil]

NotGetWork ==
    <<work, cVars, hVars, interrupts, resubmitAdjustCh, deadline, cfgVars, head,
      wVars, busyMining, current, pendingTasks, snapshot, chVars, dVars, mVars,
      tVars, pVars, lVars, sVars, uVars, kVars, rVars, zVars, qVars, bVars, prepared>>

\* getSealingBlock is called: the request is built and the select is reached
GsbCall(c) ==
    /\ gpc[c] = "idle"
    /\ \E parent \in ParentHashes, timestamp \in Stamps, random \in Randoms :
          gparams' = [gparams EXCEPT ![c] =
                         [timestamp |-> timestamp, forceTime |-> TRUE,
                          parentHash |-> parent, random |-> random,
                          noUncle |-> TRUE, noExtra |-> TRUE]]
    /\ gpc' = [gpc EXCEPT ![c] = "select"]
    /\ UNCHANGED <<reqResult, reqErr, gret, gaccepted, NotGetWork>>

\* mainLoop, case req := <-w.getWorkCh, with the send of getSealingBlock
MainGetWork(c) ==
    /\ mpc = "select"
    /\ gpc[c] = "select"
    /\ \E now \in Stamps, extra \in Extras, engine \in EngineOutcomes,
          assemble \in AssembleOutcomes, ol \in RangeOrders(localUncles),
          or \in RangeOrders(remoteUncles) :
          LET g == generateWork(gparams[c], now, extra, engine, assemble, ol, or)
          IN  /\ reqErr' = [reqErr EXCEPT ![c] = g.err]
              /\ reqResult' = [reqResult EXCEPT ![c] =
                                  <<IF g.err # Nil THEN NilBlock ELSE g.block>>]
    /\ gaccepted' = [gaccepted EXCEPT ![c] = TRUE]
    /\ gpc' = [gpc EXCEPT ![c] = "wait"]
    /\ UNCHANGED <<gparams, gret, NotGetWork>>

\* block := <-req.result and the return
GsbRecv(c) ==
    /\ gpc[c] = "wait"
    /\ reqResult[c] # <<>>
    /\ gret' = [gret EXCEPT ![c] = getSealingBlockReturn(Head(reqResult[c]), reqErr[c])]
    /\ reqResult' = [reqResult EXCEPT ![c] = <<>>]
    /\ gpc' = [gpc EXCEPT ![c] = "returned"]
    /\ UNCHANGED <<gparams, reqErr, gaccepted, NotGetWork>>

\* case <-w.exitCh: return nil, errors.New("miner closed")
GsbClosed(c) ==
    /\ gpc[c] = "select"
    /\ exited
    /\ gret' = [gret EXCEPT ![c] = [block |-> NilBlock, err |-> "miner closed"]]
    /\ gpc' = [gpc EXCEPT ![c] = "returned"]
    /\ UNCHANGED <<gparams, reqResult, reqErr, gaccepted, NotGetWork>>

InitGetWork ==
    /\ NoCall
    /\ rounds = 0
    /\ envCopy = NoEnv
    /\ pool = <<>>
    /\ interrupts = <<>>
    /\ resubmitAdjustCh = <<>>
    /\ deadline = FALSE
    /\ kinds = PoWKinds
    /\ isPoW \in BOOLEAN
    /\ cliqueZero = FALSE
    /\ coinbaseSet = TRUE
    /\ noempty = FALSE
    /\ ttdReached = FALSE
    /\ simpleOrder = FALSE
    /\ nLocal = 0
    /\ configRecommit = minRecommitInterval
    /\ newWorker(FALSE)

NextGetWork ==
    \/ \E c \in Callers : GsbCall(c)
    \/ \E c \in Callers : MainGetWork(c)
    \/ \E c \in Callers : GsbRecv(c)
    \/ \E c \in Callers : GsbClosed(c)
    \/ MainExit
    \/ ApiClose
    \/ ExternalHead

(* The main loop and the callers keep running; the case of the main loop's *)
(* select stays ready until it is taken.                                   *)
FairGetWork ==
    /\ \A c \in Callers : WF_vars(MainGetWork(c))
    /\ \A c \in Callers : WF_vars(GsbRecv(c))
    /\ \A c \in Callers : WF_vars(GsbClosed(c))

SpecGetWork == InitGetWork /\ [][NextGetWork]_vars /\ FairGetWork

C19_BlockFields ==
    \A c \in Callers : (gpc[c] = "returned" /\ gret[c].block # NilBlock) =>
        LET b == Head(gret[c].block)
        IN  /\ b.header.mixDigest = gparams[c].random
            /\ b.uncles = {}
            /\ b.header.extra = <<>>
            /\ b.header.parentHash = gparams[c].parentHash
            /\ b.header.time = gparams[c].timestamp

(***************************************************************************)
(* The receipts handed to the chain with a sealed block.  Receipts and     *)
(* logs are objects of a heap, a slice is a sequence of addresses: a copy  *)
(* is a new object, a write through a pointer changes the object it points *)
(* at.                                                                     *)
(***************************************************************************)
MaxReceipts == 2
MaxLogs == 2
MaxBlockHash == 2
BlockHashes == 1..MaxBlockHash
\* The block hash a receipt carries before the block is sealed.
EarlyHashes == {0, 1}

RECURSIVE LogsBefore(_, _)
LogsBefore(nl, i) == IF i <= 1 THEN 0 ELSE nl[i - 1] + LogsBefore(nl, i - 1)

\* The receipts of a task as commitTransaction and environment.copy leave
\* them: n receipts, receipt i with nl[i] logs.
TaskHeap(n, nl, early) ==
    [a \in 1..(n + LogsBefore(nl, n + 1)) |->
        IF a <= n
        THEN [kind |-> "receipt", tx |-> a, blockHash |-> early, blockNumber |-> 0,
              transactionIndex |-> 0,
              logs |-> [j \in 1..nl[a] |-> n + LogsBefore(nl, a) + j]]
        ELSE [kind |-> "log",
              tx |-> CHOOSE i \in 1..n : a - n - LogsBefore(nl, i) \in 1..nl[i],
              blockHash |-> early, blockNumber |-> 0, transactionIndex |-> 0,
              logs |-> <<>>]]

RECURSIVE Flatten(_)
Flatten(ss) == IF ss = <<>> THEN <<>> ELSE Head(ss) \o Flatten(Tail(ss))

\* A stamping that writes the block location into the task's own objects.
RECURSIVE stampReceiptsInPlace(_, _, _, _, _)
stampReceiptsInPlace(h, rs, i, hash, number) ==
    IF i > Len(rs) THEN [heap |-> h, receipts |-> rs,
                         logs |-> Flatten([k \in 1..Len(rs) |-> h[rs[k]].logs])]
    ELSE LET taskReceipt == h[rs[i]]
             h1 == [h EXCEPT ![rs[i]] = [taskReceipt EXCEPT !.blockHash = hash,
                                                            !.blockNumber = number,
                                                            !.transactionIndex = i - 1]]
             h2 == [a \in 1..Len(h1) |->
                       IF \E j \in 1..Len(taskReceipt.logs) : taskReceipt.logs[j] = a
                       THEN [h1[a] EXCEPT !.blockHash = hash] ELSE h1[a]]
         IN  stampReceiptsInPlace(h2, rs, i + 1, hash, number)

(* for i, taskReceipt := range task.receipts: receipt := new(types.Receipt); *)
(* *receipt = *taskReceipt; the three block location fields; a new slice of *)
(* new logs, each *log = *taskLog with log.BlockHash = hash.  From receipt  *)
(* i on, with the heap h; the result is the heap, the receipts slice and    *)
(* the logs appended.                                                       *)
RECURSIVE stampReceipts(_, _, _, _, _)
stampReceipts(h, rs, i, hash, number) ==
    IF i > Len(rs) THEN [heap |-> h, receipts |-> <<>>, logs |-> <<>>]
    ELSE LET taskReceipt == h[rs[i]]
             receipt == Len(h) + 1
             newLogs == [j \in 1..Len(taskReceipt.logs) |-> receipt + j]
             h1 == Append(h, [taskReceipt EXCEPT !.blockHash = hash,
                                                 !.blockNumber = number,
                                                 !.transactionIndex = i - 1,
                                                 !.logs = newLogs])
             h2 == h1 \o [j \in 1..Len(taskReceipt.logs) |->
                             [h[taskReceipt.logs[j]] EXCEPT !.blockHash = hash]]
             rest == stampReceipts(h2, rs, i + 1, hash, number)
         IN  [heap |-> rest.heap, receipts |-> <<receipt>> \o rest.receipts,
              logs |-> newLogs \o rest.logs]

NotReceipts ==
    <<work, cVars, hVars, interrupts, resubmitAdjustCh, deadline, cfgVars, head,
      wVars, busyMining, current, pendingTasks, snapshot, chVars, dVars, mVars,
      tVars, pVars, lVars, sVars, uVars, kVars, rVars, zVars, gVars, bVars, prepared>>

\* The task (the environment copy of commitEx) with its receipts is made.
TaskReceipts ==
    /\ written.by = "none"
    /\ \E n \in 0..MaxReceipts, early \in EarlyHashes :
          \E nl \in [1..n -> 0..MaxLogs] :
             /\ heap' = TaskHeap(n, nl, early)
             /\ heap0' = TaskHeap(n, nl, early)
             /\ taskReceipts' = [i \in 1..n |-> i]
    /\ written' = [written EXCEPT !.by = "task"]
    /\ UNCHANGED <<own, NotReceipts>>

\* resultLoop: the copies, then WriteBlockAndSetHead(block, receipts, logs, ...)
ResStamp ==
    /\ written.by = "task"
    /\ \E hash \in BlockHashes, number \in 1..MaxChain :
          LET r == stampReceipts(heap, taskReceipts, 1, hash, number)
          IN  /\ heap' = r.heap
              /\ written' = [by |-> "resultLoop", hash |-> hash, number |-> number,
                             receipts |-> r.receipts, logs |-> r.logs]
    /\ UNCHANGED <<heap0, taskReceipts, own, NotReceipts>>

\* commitEx: the copies, then WriteBlockAndSetHead(sealedBlock, receipts, logs, ...)
CexStamp ==
    /\ written.by = "task"
    /\ \E hash \in BlockHashes, number \in 1..MaxChain :
          LET r == stampReceipts(heap, taskReceipts, 1, hash, number)
          IN  /\ heap' = r.heap
              /\ written' = [by |-> "commitEx", hash |-> hash, number |-> number,
                             receipts |-> r.receipts, logs |-> r.logs]
    /\ UNCHANGED <<heap0, taskReceipts, own, NotReceipts>>

InitReceipts ==
    /\ NoCall
    /\ rounds = 0
    /\ envCopy = NoEnv
    /\ pool = <<>>
    /\ interrupts = <<>>
    /\ resubmitAdjustCh = <<>>
    /\ deadline = FALSE
    /\ kinds = PoWKinds
    /\ isPoW \in BOOLEAN
    /\ cliqueZero = FALSE
    /\ coinbaseSet = TRUE
    /\ noempty = FALSE
    /\ ttdReached = FALSE
    /\ simpleOrder = FALSE
    /\ nLocal = 0
    /\ configRecommit = minRecommitInterval
    /\ newWorker(FALSE)

NextReceipts ==
    \/ TaskReceipts
    \/ ResStamp
    \/ CexStamp

SpecReceipts == InitReceipts /\ [][NextReceipts]_vars

\* C23: the receipts written with a sealed block are fresh copies: as many
\* as the task's receipts, copy i with the sealed block's hash, the block
\* number and transaction index i (from 0), every log of copy i with that
\* hash, everything else as in the task's receipt, and the task's own
\* receipts and logs unmodified.
C23_ReceiptsAreFreshCopies ==
    written.by \in {"resultLoop", "commitEx"} =>
        /\ Len(written.receipts) = Len(taskReceipts)
        /\ \A a \in 1..Len(heap0) : heap[a] = heap0[a]
        /\ \A i \in 1..Len(taskReceipts) :
              LET c == heap[written.receipts[i]]
                  o == heap0[taskReceipts[i]]
              IN  /\ written.receipts[i] > Len(heap0)
                  /\ c.blockHash = written.hash
                  /\ c.blockNumber = written.number
                  /\ c.transactionIndex = i - 1
                  /\ c.tx = o.tx
                  /\ Len(c.logs) = Len(o.logs)
                  /\ \A j \in 1..Len(c.logs) :
                        /\ c.logs[j] > Len(heap0)
                        /\ heap[c.logs[j]].blockHash = written.hash
                        /\ heap[c.logs[j]].tx = heap0[o.logs[j]].tx
        /\ written.logs = Flatten([i \in 1..Len(taskReceipts) |->
                                      heap[written.receipts[i]].logs])

C23_Witness ==
    /\ written.by = "commitEx"
    /\ Len(taskReceipts) = 2
    /\ Len(heap0[taskReceipts[2]].logs) = 2
    /\ heap0[taskReceipts[2]].blockHash # written.hash
    /\ written.number = 2

(***************************************************************************)
(* SpecPrepare: prepareWork as its two callers use it: generateWork for    *)
(* getSealingBlock (any timestamp and parent, forceTime set) and           *)
(* commitWork (the clock, the head as the parent, forceTime unset).        *)
(***************************************************************************)
PrepStamps == 1..(MaxStamp + 1)

NotPrepare ==
    <<work, cVars, hVars, interrupts, resubmitAdjustCh, deadline, cfgVars, head,
      wVars, busyMining, current, pendingTasks, snapshot, chVars, dVars, mVars,
      tVars, pVars, lVars, sVars, uVars, kVars, rVars, zVars, gVars, qVars, bVars>>

\* One call of prepareWork; what it was given and what it returned is kept.
PrepareWork ==
    /\ \E parentHash \in ParentHashes, timestamp \in PrepStamps, forceTime \in BOOLEAN,
          now \in Stamps, extra \in Extras, engine \in EngineOutcomes :
          LET genParams == [timestamp |-> timestamp, forceTime |-> forceTime,
                            parentHash |-> parentHash, random |-> ZeroHash,
                            noUncle |-> forceTime, noExtra |-> forceTime]
              r == prepareWork(genParams, now, extra, engine, <<>>, <<>>)
          IN  prepared' = [called |-> TRUE, params |-> genParams,
                           parent |-> ParentOf(genParams),
                           err |-> r.err, work |-> r.work]
    /\ UNCHANGED NotPrepare

InitPrepare == InitGetWork

NextPrepare ==
    \/ PrepareWork
    \/ ExternalHead

SpecPrepare == InitPrepare /\ [][NextPrepare]_vars

\* C24: in PoW mode an environment prepareWork built has the parent's number
\* plus one, the parent's hash and a time above the parent's; a desired
\* timestamp at or below the parent's time fails with forceTime and gives the
\* parent's time plus one without; a desired timestamp above it is kept.
C24_PreparedHeader ==
    (prepared.called /\ isPoW /\ prepared.parent # -1) =>
        LET given == prepared.params.timestamp
            parentTime == ChainTime(prepared.parent)
            built == prepared.err = Nil
            header == Head(prepared.work).header
        IN  /\ built => /\ prepared.work # NilBlock
                        /\ header.number = prepared.parent + 1
                        /\ header.parentHash = ChainHash(prepared.parent)
                        /\ header.time > parentTime
            /\ (given <= parentTime /\ prepared.params.forceTime) =>
                  (prepared.err = "invalid timestamp" /\ prepared.work = NilBlock)
            /\ (given <= parentTime /\ ~prepared.params.forceTime /\ built) =>
                  header.time = parentTime + 1
            /\ (given > parentTime /\ built) => header.time = given

\* A build without forceTime whose desired timestamp equals the parent's time.
C24_Witness ==
    /\ prepared.called /\ isPoW /\ prepared.parent = 1
    /\ prepared.params.timestamp = ChainTime(1)
    /\ ~prepared.params.forceTime
    /\ prepared.err = Nil
    /\ Head(prepared.work).header.time = ChainTime(1) + 1

(***************************************************************************)
(* Claims on the calls of commitEx for a sealed block (SpecLeader).  The   *)
(* main loop is at "cex_write" exactly when the worker runs, holds the     *)
(* token, and Seal delivered a block that is not in the chain; oplog holds *)
(* the calls of the commitEx under way, in the order they are made.        *)
(***************************************************************************)
CountOps(log, kind) == Cardinality({ k \in 1..Len(log) : log[k].op = kind })

\* C25: a build whose Seal delivers a block not yet in the chain makes
\* exactly one WriteBlockAndSetHead, one NewMinedBlockEvent, one
\* unconfirmed.Insert and one ReleaseMiningToken, all of that block.
C25_OneOfEachCall ==
    [][(mpc = "cex_write" /\ mpc' # mpc) =>
         /\ \A kind \in {"write", "post", "insert", "release"} :
               CountOps(oplog', kind) = 1
         /\ \A k \in 1..Len(oplog') : oplog'[k].hash = envCopy.number]_vars

\* C26: commitEx writes the sealed block, then releases the token, then
\* posts the event, then inserts into the unconfirmed set; the write is made
\* whatever ReleaseMiningToken returns.
C26_WriteBeforeRelease ==
    [][(mpc = "cex_write" /\ mpc' # mpc) =>
         /\ CountOps(oplog', "write") = 1
         /\ \A i, j \in 1..Len(oplog') :
               (oplog'[i].op = "write" /\ oplog'[j].op = "release") => i < j]_vars

(***************************************************************************)
(* SpecTxs: the PoW worker while transaction events arrive and the         *)
(* resubmit timer fires; nobody closes the worker and no block arrives     *)
(* from outside.  Two transactions of 45000 and 21000 gas fill a block.    *)
(***************************************************************************)
InitTxs ==
    /\ NoCall
    /\ rounds = 0
    /\ envCopy = NoEnv
    /\ pool = <<AccountList(1, 1, 2)>>
    /\ interrupts = <<>>
    /\ resubmitAdjustCh = <<>>
    /\ deadline = FALSE
    /\ kinds = { k \in TxKinds : k.err = Nil /\ ~k.replay }
    /\ isPoW = TRUE
    /\ cliqueZero \in BOOLEAN
    /\ coinbaseSet = TRUE
    /\ noempty = TRUE
    /\ ttdReached = FALSE
    /\ simpleOrder = FALSE
    /\ nLocal = 0
    /\ configRecommit = minRecommitInterval
    /\ newWorker(TRUE)

NextTxs ==
    \/ DispStart
    \/ DispTimer
    \/ DispStore
    \/ DispSend
    \/ DispReset
    \/ DispAdjust
    \/ MainNewWork
    \/ MainTxs
    \/ MainTxsDone
    \/ CwCas
    \/ CwPrepare
    \/ CwPreseal
    \/ TaskSend
    \/ CwFillLocal
    \/ CwFillRemote
    \/ CwFillRemoteDone
    \/ CwCommit
    \/ CwFinish
    \/ Committer
    \/ TaskHandle
    \/ ApiStart
    \/ ApiStop

SpecTxs == InitTxs /\ [][NextTxs]_vars

\* C27 as stated: when the resubmit timer fires and no resubmit commit is
\* issued (worker not running, Clique with period 0, or newTxs = 0) the timer
\* is re-armed; otherwise commit(noempty = true, Resubmit) is issued.
C27_TimerAlwaysRearmed ==
    [][DispTimer =>
         IF running /\ ~cliqueZero /\ newTxs > 0
         THEN /\ dpc' = commitOrder[1]
              /\ dNoempty' /\ dSig' = commitInterruptResubmit
         ELSE timerArmed' /\ dpc' = "select"]_vars

\* C27, amended: the timer is re-armed by the timer case itself only when
\* the worker runs, Clique is absent or has a period above 0, and newTxs = 0;
\* when the worker does not run or Clique has period 0 the case does nothing
\* and the timer stays stopped until the next commit resets it; with
\* newTxs > 0 commit(noempty = true, Resubmit) is issued.
C27_TimerRearmedWhenIdleRunning ==
    [][(dpc = "select" /\ timerArmed /\ dpc' # "exit" /\ (DispTimer \/ ~timerArmed')) =>
         IF running /\ ~cliqueZero
         THEN IF newTxs = 0
              THEN timerArmed' /\ dpc' = "select"
              ELSE /\ dpc' = commitOrder[1]
                   /\ dNoempty' /\ dSig' = commitInterruptResubmit
         ELSE /\ ~timerArmed' /\ dpc' = "select"
              /\ newWorkCh' = newWorkCh /\ interrupts' = interrupts]_vars

\* The timer has fired after a commit while the worker was not running, and
\* is stopped.
C27_Witness ==
    /\ dpc = "select" /\ dInterrupt > 0
    /\ ~timerArmed
    /\ ~running /\ ~cliqueZero
    /\ newTxs > 0

\* C28 as stated: every NewTxsEvent the main loop consumes adds the number
\* of its transactions to newTxs, whether the worker runs, an environment
\* exists, or the pending block is full.
C28_EveryEventCounted ==
    [][MainTxs => /\ mpc' = "select" => newTxs' = newTxs + Len(TxsEventQueue)
                  /\ mpc' # "select" => mAdd' = Len(TxsEventQueue)]_vars

\* C28, amended: the event is counted, at the end of its case, unless the
\* worker is not running and the current environment is full (gas pool below
\* TxGas): then the case ends at once and newTxs keeps its value.
C28_EventCountedUnlessFull ==
    /\ [][MainTxs =>
            IF ~running /\ current # NoEnv /\ current.gasPool # NilPool
                        /\ current.gasPool < TxGas
            THEN newTxs' = newTxs /\ mpc' = "select" /\ mAdd' = 0
            ELSE /\ mpc' = "select" => newTxs' = newTxs + Len(TxsEventQueue)
                 /\ mpc' # "select" => mAdd' = Len(TxsEventQueue)]_vars
    /\ [][(mAdd > 0 /\ mpc' = "select") =>
            (newTxs' = newTxs + mAdd /\ mAdd' = 0)]_vars
    /\ [](mAdd > 0 => mpc # "select")

\* An event has been dropped on a full block.
C28_Witness ==
    /\ oplog = <<TxsDropped>>
    /\ mpc = "select" /\ newTxs = 0
    /\ ~running /\ current.gasPool < TxGas

\* C29: with MaxTxsPerBlock > 0 no environment holds more than
\* MaxTxsPerBlock executed transactions, whichever committer variant filled
\* it and across the commit rounds of commitTransactionsEx.
C29_TcountCapped ==
    MaxTxsPerBlock > 0 => work.tcount <= MaxTxsPerBlock

\* A committer call of a leader-mode build: tstart and env.till are set and
\* the interrupt is nil.
LeaderBuildCall == HasTStart(ccall) /\ cint = 0 /\ work.hasTill

AdjustSent == SubSeq(resubmitAdjustCh', Len(resubmitAdjustCh) + 1, Len(resubmitAdjustCh'))

\* C31: a committer call with a non-nil interrupt sends at most one
\* intervalAdjust: {inc = true, ratio = max(0.1, used / limit)} when it leaves
\* on a Resubmit interrupt, {inc = false} when it leaves the loop without an
\* interrupt, none when it leaves on NewHead; a call with a nil interrupt
\* sends none.  A send is the step before the return, or before the last
\* load and the return.
C31_OneAdjustPerCall ==
    /\ [][(cpc # cpc' /\ cpc # "done") =>
            CASE cpc = "load2" ->
                   /\ AdjustSent = <<>>
                   /\ cpc' = IF interrupts[cint] = commitInterruptResubmit
                             THEN "send_inc" ELSE "load3"
              [] cpc = "send_inc" ->
                   /\ cint # 0 /\ interrupts[cint] = commitInterruptResubmit
                   /\ AdjustSent =
                        <<[ratio |-> Max(100, ((work.gasLimit - work.gasPool) * 1000)
                                                \div work.gasLimit),
                           inc |-> TRUE]>>
                   /\ cpc' = "load3"
              [] cpc = "load3" ->
                   /\ AdjustSent = <<>>
                   /\ cpc' = "done" /\ cexit' = "interrupt"
                   /\ cret' = (interrupts[cint] = commitInterruptNewHead)
              [] cpc = "post" ->
                   /\ cint # 0 /\ cexit \notin {Nil, "interrupt"}
                   /\ AdjustSent = <<[ratio |-> 0, inc |-> FALSE]>>
                   /\ cpc' = "done" /\ ~cret'
              [] OTHER ->
                   /\ AdjustSent = <<>>
                   /\ cpc' = "post" => cint # 0
                   /\ (cpc' = "done" /\ cint # 0) => FALSE]_vars
    /\ [](cint = 0 => resubmitAdjustCh = <<>>)
    /\ [](cpc = "done" => Len(resubmitAdjustCh) <= rounds)

\* A call has left on Resubmit after one transaction of 21000 gas: one
\* adjustment with inc and ratio 0.3.
C31_Witness ==
    /\ cpc = "done" /\ cexit = "interrupt" /\ ~cret
    /\ rounds = 1
    /\ resubmitAdjustCh = <<[ratio |-> 300, inc |-> TRUE]>>

\* C32: after clearPending for head number N, pendingTasks has lost exactly
\* the tasks whose block number b has N - b > staleThreshold and keeps every
\* task with N - b <= staleThreshold.
C32_PrunedBeyondThreshold ==
    [][TkPrune =>
         \E N \in PruneNumbers :
            pendingTasks' =
               { e \in pendingTasks : N - e.task.block.number <= staleThreshold }]_vars

\* C33: commitUncle adds a header to env.uncles only in PoW mode, before
\* TTD, when the hash is not in env.uncles, the uncle is no sibling, its
\* parent is an ancestor and its hash is not of the family; every rejection
\* returns an error and leaves the environment as it was; in leader mode the
\* uncles of every environment are empty.
C33_UncleAdmission ==
    \A env \in {uenv, ucopy} \ {NoUncleEnv} :
        /\ \A b \in SideBlocks :
              LET r == commitUncle(env, b)
                  admitted == /\ isPoW
                              /\ ~ttdReached
                              /\ b.hash \notin Hashes(env.uncles)
                              /\ b.parent # env.parent
                              /\ b.parent \in env.ancestors
                              /\ b.hash \notin env.family
              IN  IF admitted
                  THEN r.err = Nil /\ r.env = [env EXCEPT !.uncles = env.uncles \cup {b}]
                  ELSE r.err # Nil /\ r.env = env
        /\ ~isPoW => env.uncles = {}

\* In PoW mode the side-chain case has admitted an uncle into w.current and
\* refused another candidate, a sibling, that it keeps in its maps.
C33_Witness ==
    /\ isPoW /\ ~ttdReached /\ running
    /\ Cardinality(uenv.uncles) = 1
    /\ ucopy = uenv
    /\ \E b \in (localUncles \cup remoteUncles) \ uenv.uncles :
          /\ b.parent = uenv.parent
          /\ commitUncle(uenv, b).err = "sibling"

\* ---------------------------------------------------------------------------
\* The pacing controller timeIt: from the wall clock and the stamps of earlier
\* headers it decides behind (-1), on schedule (0) or ahead (1) and returns the
\* timestamp and the deadline of the next block.
\* ---------------------------------------------------------------------------

maxPeekBack == 86400
tooBehindMultiple == 2

BlockMinBuildTime == 200
BlockTrailTime == 300
BlockTimeAdjBlocks == 2
BlockTimeAdjMultiple == 2

MaxClock == 4
PaceHeight == 2
PaceFracs == {0, 900}
PaceIntervals == {0, 2000}

\* The stamps of the headers 0..PaceHeight of a chain, oldest first.
PaceChains ==
    { t \in [0..PaceHeight -> 0..MaxClock] :
         \A n \in 1..PaceHeight : t[n - 1] <= t[n] }

\* time.Unix(sec, nsec) and the instant it denotes, in milliseconds.
timeUnix(sec, nsec) == [sec |-> sec, nsec |-> nsec]

UnixMilli(t) == t.sec * 1000 + (t.nsec \div 1000000)

\* The closure check of timeIt: the offset seen heightToPeek blocks back.
check(heightToPeek, num, nowInSeconds, blockInterval, headers) ==
    LET peek == IF heightToPeek > maxPeekBack THEN maxPeekBack ELSE heightToPeek
        n == num - peek
    IN  IF n < 0 THEN 0
        ELSE IF n \notin DOMAIN headers THEN 0
        ELSE LET dt == nowInSeconds - headers[n]
             IN  IF peek * blockInterval < dt
                    /\ dt < tooBehindMultiple * peek * blockInterval
                 THEN -1
                 ELSE IF dt < peek * blockInterval THEN 1 ELSE 0

\* The adjustment loop of timeIt from round i on: the last offset and the
\* number of rounds that saw 'ahead'.
RECURSIVE timeItLoop(_, _, _, _, _, _, _, _)
timeItLoop(i, adjBlocks, offset, ahead, num, nowInSeconds, blockInterval, headers) ==
    IF i >= BlockTimeAdjMultiple THEN [offset |-> offset, ahead |-> ahead]
    ELSE LET o == check(adjBlocks, num, nowInSeconds, blockInterval, headers)
         IN  IF o < 0 THEN [offset |-> o, ahead |-> ahead]
             ELSE timeItLoop(i + 1, adjBlocks * 10, o,
                             IF o > 0 THEN ahead + 1 ELSE ahead,
                             num, nowInSeconds, blockInterval, headers)

timeIt(blockIntervalMs, nowInMilliSeconds, headers) ==
    LET blockInterval == IF blockIntervalMs \div 1000 <= 0 THEN 1
                         ELSE blockIntervalMs \div 1000
        parentNumber == PaceHeight
        parentTime == headers[parentNumber]
        num == parentNumber + 1
        nowInSeconds == nowInMilliSeconds \div 1000
        first == check(1, num, nowInSeconds, blockInterval, headers)
        looped == IF first >= 0
                  THEN timeItLoop(0, BlockTimeAdjBlocks, first,
                                  IF first > 0 THEN 1 ELSE 0,
                                  num, nowInSeconds, blockInterval, headers)
                  ELSE [offset |-> first, ahead |-> 0]
        offset == IF looped.offset >= 0 /\ looped.ahead > 0 THEN 1 ELSE looped.offset
        timestamp == IF nowInSeconds < parentNumber THEN parentNumber ELSE nowInSeconds
        behind == nowInMilliSeconds + BlockMinBuildTime
        aheadT == nowInMilliSeconds + blockInterval * 1000 + BlockMinBuildTime
        sched == nowInMilliSeconds + blockInterval * 1000 - BlockTrailTime
        tms == CASE offset = -1 ->
                      IF behind \div 1000 <= parentTime
                      THEN (nowInSeconds + 1) * 1000 ELSE behind
                 [] offset = 1 ->
                      IF aheadT \div 1000 > nowInSeconds + blockInterval
                      THEN (nowInSeconds + blockInterval + 1) * 1000 - BlockTrailTime
                      ELSE aheadT
                 [] OTHER ->
                      IF sched \div 1000 > nowInSeconds + 1
                      THEN (nowInSeconds + 2) * 1000 - BlockTrailTime
                      ELSE sched
    IN  [timestamp |-> timestamp, offset |-> offset,
         till |-> timeUnix(tms \div 1000, (tms % 1000) * 1000000)]

\* One call of timeIt; the clock, the chain and the result are kept.
TimeIt ==
    /\ \E blockIntervalMs \in PaceIntervals, sec \in 0..MaxClock, frac \in PaceFracs,
          headers \in PaceChains :
          LET now == sec * 1000 + frac
              r == timeIt(blockIntervalMs, now, headers)
          IN  prepared' = [called |-> TRUE, now |-> now, headers |-> headers,
                           parentTime |-> headers[PaceHeight],
                           blockInterval |-> blockIntervalMs,
                           offset |-> r.offset, timestamp |-> r.timestamp,
                           till |-> r.till]
    /\ UNCHANGED NotPrepare

\* timeIt is called in leader mode only.
InitTimeIt == InitGetWork /\ ~isPoW

NextTimeIt == TimeIt

SpecTimeIt == InitTimeIt /\ [][NextTimeIt]_vars

\* C34: when timeIt decides 'behind', the deadline is the clock plus
\* BlockMinBuildTime unless that instant lies in a second at or before the
\* parent's, and in every case the deadline lies after the parent's second.
C34_BehindDeadlineAfterParent ==
    (prepared.called /\ prepared.offset = -1) =>
        /\ ((prepared.now + BlockMinBuildTime) \div 1000 > prepared.parentTime
               => UnixMilli(prepared.till) = prepared.now + BlockMinBuildTime)
        /\ UnixMilli(prepared.till) > prepared.parentTime * 1000

\* ---------------------------------------------------------------------------
\* SpecPreseal: the PoW worker with the pre-seal switched on or off
\* (disablePreseal) and the terminal total difficulty reached or not.
\* ---------------------------------------------------------------------------
InitPreseal ==
    /\ NoCall
    /\ rounds = 0
    /\ envCopy = NoEnv
    /\ pool = <<AccountList(1, 1, 1)>>
    /\ interrupts = <<>>
    /\ resubmitAdjustCh = <<>>
    /\ deadline = FALSE
    /\ kinds = PoWKinds
    /\ isPoW = TRUE
    /\ cliqueZero = FALSE
    /\ coinbaseSet = TRUE
    /\ noempty \in BOOLEAN
    /\ ttdReached \in BOOLEAN
    /\ simpleOrder = FALSE
    /\ nLocal = 0
    /\ configRecommit = minRecommitInterval
    /\ newWorker(TRUE)

NextPreseal ==
    \/ DispStart
    \/ DispTimer
    \/ DispStore
    \/ DispSend
    \/ DispReset
    \/ DispAdjust
    \/ MainNewWork
    \/ MainTxs
    \/ MainTxsDone
    \/ CwCas
    \/ CwPrepare
    \/ CwPreseal
    \/ TaskSend
    \/ CwFillLocal
    \/ CwFillRemote
    \/ CwFillRemoteDone
    \/ CwCommit
    \/ CwFinish
    \/ Committer
    \/ TaskHandle
    \/ ApiStart
    \/ ApiStop

SpecPreseal == InitPreseal /\ [][NextPreseal]_vars

\* A task sent from the pre-seal is the empty block of the environment just
\* prepared, and is sent only when neither the request nor the worker says
\* noempty, before any transaction is filled in.
PresealTaskIsEmpty ==
    (TaskSend /\ mpc = "preseal_send") =>
        /\ ~mreq.noempty /\ ~noempty
        /\ work.tcount = 0
        /\ ttask'.block = FinalizeAndAssemble(work)
        /\ ttask'.block.txs = <<>>
        /\ mpc' = "fill_local"

\* With noempty (a timer resubmit) or after disablePreseal the pre-seal is
\* skipped and no task is made.
NoPresealWhenNoempty ==
    (CwPreseal /\ (mreq.noempty \/ noempty)) =>
        (mpc' = "fill_local" /\ mtask' = mtask /\ mtask = NoTask)

\* The task sent from the full commit holds the environment as filled.
FullTaskAfterFill ==
    (TaskSend /\ mpc = "commit_send") =>
        /\ ttask'.block = FinalizeAndAssemble(work)
        /\ ttask'.receipts = work.receipts
        /\ mpc' = "commit_update"

\* Within commitWork the snapshot is written by the full commit only (outside
\* it the transaction handler of a stopped worker writes it); at the end of
\* commitWork the previous w.current is discarded and the new environment
\* installed.
SnapshotThenInstall ==
    /\ snapshot' # snapshot =>
          \/ CwFinish /\ mpc = "commit_update" /\ snapshot' = updateSnapshot(copy(work))
          \/ MainTxsDone
    /\ CwFinish =>
          /\ mpc = "commit_update" => snapshot' = updateSnapshot(copy(work))
          /\ current' = work
          /\ stops' = IF current # NoEnv THEN discard(current, stops) ELSE stops

MaxCells == 36
MaxOwnTxs == 1

\* A fresh object: no transaction applied, not finalized, not written.
NewCell == [txs |-> 0, final |-> FALSE, written |-> FALSE]

Cells(r) == {r.state, r.header, r.receipts} \ {0}

\* A copy whose state is the state of the original.
copyObjectsSharedState(h, env) ==
    [heap |-> h \o <<h[env.header], h[env.receipts]>>,
     env |-> [state |-> env.state, header |-> Len(h) + 1, receipts |-> Len(h) + 2]]

\* environment.copy: state.Copy(), types.CopyHeader, copyReceipts
copyObjects(h, env) ==
    [heap |-> h \o <<h[env.state], h[env.header], h[env.receipts]>>,
     env |-> [state |-> Len(h) + 1, header |-> Len(h) + 2,
              receipts |-> Len(h) + 3]]

\* updateSnapshot: types.NewBlock copies the header, copyReceipts, state.Copy()
updateSnapshotObjects(h, env) ==
    [heap |-> h \o <<h[env.state], h[env.header], h[env.receipts]>>,
     env |-> [state |-> Len(h) + 1, header |-> Len(h) + 2,
              receipts |-> Len(h) + 3]]

\* engine.FinalizeAndAssemble writes the rewards into the state and the root
\* into the header it is given.
FinalizeObjects(h, env) ==
    [h EXCEPT ![env.state].final = TRUE, ![env.header].final = TRUE]

\* commitTransaction: the state, the header's gas used and the receipts grow.
applyObjects(h, env, n) ==
    [h EXCEPT ![env.state].txs = @ + n, ![env.header].txs = @ + n,
              ![env.receipts].txs = @ + n]

\* WriteBlockAndSetHead commits the state it is given.
WriteState(h, a) == [h EXCEPT ![a].written = TRUE]

\* The body of commit and commitEx below the token check, on the environment
\* env it was handed: the local copy, FinalizeAndAssemble, the task (commit)
\* or the write (commitEx), updateSnapshot(env).
commitObjects(h, env, run, ok, update, ex) ==
    LET inner == copyObjects(h, env)
        fin == FinalizeObjects(inner.heap, inner.env)
        made == run /\ ok /\ ~ttdReached
        h1 == IF ~run THEN h
              ELSE IF made /\ ex THEN WriteState(fin, inner.env.state)
              ELSE fin
        snap == updateSnapshotObjects(h1, env)
    IN  IF run /\ ~ok
        THEN [heap |-> h1, tasks |-> {}, snapshot |-> NoRef]
        ELSE [heap |-> IF update THEN snap.heap ELSE h1,
              tasks |-> IF made THEN {inner.env} ELSE {},
              snapshot |-> IF update THEN snap.env ELSE NoRef]

OwnFrame ==
    UNCHANGED <<heap0, taskReceipts, written, NotReceipts>>

\* prepareWork / makeEnv: a new state, header and receipts
OwnPrepareWork ==
    /\ own.pc = "idle"
    /\ Len(heap) + 3 <= MaxCells
    /\ heap' = heap \o <<NewCell, NewCell, NewCell>>
    /\ own' = [own EXCEPT !.pc = IF isPoW THEN "preseal" ELSE "fill",
                          !.work = [state |-> Len(heap) + 1, header |-> Len(heap) + 2,
                                    receipts |-> Len(heap) + 3]]
    /\ OwnFrame

\* if !noempty && ... { w.commit(work.copy(), nil, false, start) }
OwnPreseal ==
    /\ own.pc = "preseal"
    /\ Len(heap) + 6 <= MaxCells
    /\ \E skip \in BOOLEAN, run \in BOOLEAN, ok \in BOOLEAN :
          IF skip THEN /\ own' = [own EXCEPT !.pc = "fill"]
                       /\ UNCHANGED heap
          ELSE LET outer == copyObjects(heap, own.work)
                   r == commitObjects(outer.heap, outer.env, run, ok, FALSE, FALSE)
               IN  /\ heap' = r.heap
                   /\ own' = [own EXCEPT !.pc = "fill",
                                         !.tasks = @ \cup r.tasks]
    /\ OwnFrame

\* fillTransactions / commitTransactionsEx on the environment being built
OwnFill ==
    /\ own.pc = "fill"
    /\ \E n \in 0..MaxOwnTxs :
          heap' = applyObjects(heap, own.work, n)
    /\ own' = [own EXCEPT !.pc = IF isPoW THEN "commit" ELSE "ex"]
    /\ OwnFrame

\* w.commit(work.copy(), w.fullTaskHook, true, start)
OwnCommit ==
    /\ own.pc = "commit"
    /\ Len(heap) + 9 <= MaxCells
    /\ \E run \in BOOLEAN, ok \in BOOLEAN :
          LET outer == copyObjects(heap, own.work)
              r == commitObjects(outer.heap, outer.env, run, ok, TRUE, FALSE)
          IN  /\ heap' = r.heap
              /\ own' = [own EXCEPT !.pc = "install",
                                    !.tasks = @ \cup r.tasks,
                                    !.snapshot = IF r.snapshot # NoRef
                                                 THEN r.snapshot ELSE @]
    /\ OwnFrame

\* if w.current != nil { w.current.discard() }; w.current = work
OwnInstall ==
    /\ own.pc = "install"
    /\ own' = [own EXCEPT !.pc = "idle", !.current = own.work, !.work = NoRef]
    /\ UNCHANGED heap
    /\ OwnFrame

\* leader mode: w.commitEx(work, w.fullTaskHook, true, start); the
\* environment is dropped when commitWork returns
OwnCommitEx ==
    /\ own.pc = "ex"
    /\ Len(heap) + 6 <= MaxCells
    /\ \E run \in BOOLEAN, ok \in BOOLEAN :
          LET r == commitObjects(heap, own.work, run, ok, TRUE, TRUE)
          IN  /\ heap' = r.heap
              /\ own' = [own EXCEPT !.pc = "idle", !.work = NoRef,
                                    !.tasks = @ \cup r.tasks,
                                    !.snapshot = IF r.snapshot # NoRef
                                                 THEN r.snapshot ELSE @]
    /\ OwnFrame

\* mainLoop, txsCh of a worker not sealing: the transactions are applied to
\* w.current and updateSnapshot(w.current) follows
OwnTxs ==
    /\ own.pc = "idle"
    /\ own.current # NoRef
    /\ heap[own.current.state].txs < MaxOwnTxs
    /\ Len(heap) + 3 <= MaxCells
    /\ LET r == updateSnapshotObjects(applyObjects(heap, own.current, 1), own.current)
       IN  /\ heap' = r.heap
           /\ own' = [own EXCEPT !.snapshot = r.env]
    /\ OwnFrame

\* resultLoop: WriteBlockAndSetHead(block, receipts, logs, task.state, true)
OwnWrite ==
    /\ isPoW
    /\ \E t \in own.tasks :
          /\ ~heap[t.state].written
          /\ heap' = WriteState(heap, t.state)
    /\ UNCHANGED own
    /\ OwnFrame

InitOwn == InitGetWork

NextOwn ==
    \/ OwnPrepareWork
    \/ OwnPreseal
    \/ OwnFill
    \/ OwnCommit
    \/ OwnInstall
    \/ OwnCommitEx
    \/ OwnTxs
    \/ OwnWrite

SpecOwn == InitOwn /\ [][NextOwn]_vars

Disjoint(a, b) == a \cap b = {}

\* C36: the objects held by a task (or sealed by commitEx), by the snapshot
\* and by w.current (or the environment it is installed from) are pairwise
\* different objects, and a step that finalizes, seals or writes a block
\* leaves every object of the snapshot and of w.current as it was.
C36_NoSharedState ==
    /\ [](/\ \A t \in own.tasks :
               /\ Cardinality(Cells(t)) = 3
               /\ Disjoint(Cells(t), Cells(own.snapshot))
               /\ Disjoint(Cells(t), Cells(own.current))
               /\ Disjoint(Cells(t), Cells(own.work))
               /\ \A u \in own.tasks : u # t => Disjoint(Cells(t), Cells(u))
          /\ Disjoint(Cells(own.snapshot), Cells(own.current))
          /\ Disjoint(Cells(own.snapshot), Cells(own.work)))
    /\ [][(OwnPreseal \/ OwnCommit \/ OwnCommitEx \/ OwnWrite) =>
             \A a \in Cells(own.snapshot) \cup Cells(own.current) \cup Cells(own.work) :
                heap'[a] = heap[a]]_vars

\* A task's state is finalized and written while the snapshot and w.current
\* hold their own states, neither finalized nor written.
C36_Witness ==
    /\ isPoW
    /\ own.snapshot # NoRef /\ own.current # NoRef
    /\ \E t \in own.tasks :
          /\ heap[t.state].final /\ heap[t.state].written
          /\ heap[t.state].txs = 1
    /\ ~heap[own.snapshot.state].final /\ ~heap[own.snapshot.state].written
    /\ ~heap[own.current.state].final /\ ~heap[own.current.state].written
    /\ heap[own.current.state].txs = 1

\* ---------------------------------------------------------------------------
\* SpecRounds: the leader-mode worker, not started, building on the timer of
\* newWorkLoopEx from a pool that is empty, that runs dry, or that holds more
\* than a block takes; the clock and the main loop keep running.
\* ---------------------------------------------------------------------------
RoundPools ==
    { <<>>,
      <<AccountList(1, 1, 1)>>,
      <<AccountList(1, 1, 2), AccountList(1, 2, 2)>> }

\* A transaction that is applied, one whose error shifts, one whose error pops.
RoundKinds ==
    { k \in TxKinds : k.gas = 21000 /\ ~k.replay
                        /\ k.err \in {Nil, "nonce_low", "nonce_high"} }

InitRounds ==
    /\ NoCall
    /\ rounds = 0
    /\ envCopy = NoEnv
    /\ pool \in RoundPools
    /\ interrupts = <<>>
    /\ resubmitAdjustCh = <<>>
    /\ deadline = FALSE
    /\ kinds = RoundKinds
    /\ isPoW = FALSE
    /\ cliqueZero = FALSE
    /\ coinbaseSet = TRUE
    /\ noempty = FALSE
    /\ ttdReached = FALSE
    /\ simpleOrder \in BOOLEAN
    /\ nLocal = 0
    /\ configRecommit = minRecommitInterval
    /\ newWorker(TRUE)

NextRounds ==
    \/ DispExTimer
    \/ DispExCas
    \/ DispExSend
    \/ DispExRelease
    \/ MainNewWork
    \/ CwCas
    \/ CwAcquire
    \/ CwRefresh
    \/ CwPrepare
    \/ CwExRound
    \/ CwExRoundDone
    \/ Tick
    \/ CexSeal
    \/ CexUpdate
    \/ CommitterBody

\* The clock advances and the main loop goroutine is scheduled.
FairRounds ==
    /\ WF_vars(Tick)
    /\ WF_vars(CwExRound)
    /\ WF_vars(CwExRoundDone)
    /\ WF_vars(CommitterBody)

SpecRounds == InitRounds /\ [][NextRounds]_vars /\ FairRounds

InRounds == mpc \in {"ex_round", "ex_wait"}

\* C37: commitTransactionsEx terminates.  An iteration of the committer
\* leaves the loop or takes a transaction off the queue, so a round ends; the
\* polling loop goes on at a round boundary exactly while env.till has not
\* passed; and a worker inside commitTransactionsEx gets out of it, whether
\* the pool is empty, runs dry or never does.
C37_RoundsTerminate ==
    /\ [][CommitterBody => (cpc' = "done" \/ QueueLen(txq') < QueueLen(txq))]_vars
    /\ [][((CwExRound /\ pool = <<>>) \/ (CwExRoundDone /\ ~cret)) =>
             (mpc' = (IF deadline THEN "cex" ELSE "ex_round"))]_vars
    /\ [][(InRounds /\ ~InRounds') => (deadline \/ cret)]_vars
    /\ (mpc = "ex_wait") ~> (mpc = "ex_wait" /\ cpc = "done")
    /\ InRounds ~> ~InRounds

\* The polling loop has ended on the deadline with the pool still holding
\* transactions that no round took.
C37_Witness ==
    /\ mpc = "cex" /\ deadline
    /\ QueueLen(pool) = 4
    /\ work.tcount >= 1
    /\ QueueLen(WithoutCommitted(pool, committed)) >= 1

\* ---------------------------------------------------------------------------
\* SpecChan: the PoW dispatcher and the main loop as far as their channels
\* go, over many work requests.  Block numbers, environments and tasks are
\* left out: a work request is its interrupt word, commitWork is the calls of
\* commitTransactions that fillTransactions makes (one for the local, one for
\* the remote transactions), and a call is what it does with its interrupt
\* word and with resubmitAdjustCh.  No transaction event arrives, so the timer
\* case of the dispatcher never commits.
\* ---------------------------------------------------------------------------
MaxChanWords == 11
MaxPendingHeads == 1

\* A chain head event arrives.
ChHead ==
    /\ Len(chainHeadCh) < MaxPendingHeads
    /\ chainHeadCh' = Append(chainHeadCh, head)
    /\ UNCHANGED <<work, cVars, hVars, interrupts, resubmitAdjustCh, deadline,
                   cfgVars, head, wVars, busyMining, current, pendingTasks, snapshot,
                   newWorkCh, startCh, dVars, mVars, tVars, pVars, lVars, oVars>>

\* case <-w.startCh
ChDispStart ==
    /\ dpc = "select"
    /\ startCh > 0
    /\ nextWord <= MaxChanWords
    /\ startCh' = 0
    /\ DispBegin(FALSE, commitInterruptNewHead)
    /\ UNCHANGED <<dInterrupt, dTimer, timerArmed, nextWord, interrupts, newWorkCh,
                   chainHeadCh, newTxs, pendingTasks, resubmitAdjustCh, busyMining,
                   snapshot, pVars, NotDispatcher>>

\* case head := <-w.chainHeadCh
ChDispChainHead ==
    /\ dpc = "select"
    /\ chainHeadCh # <<>>
    /\ nextWord <= MaxChanWords
    /\ chainHeadCh' = Tail(chainHeadCh)
    /\ DispBegin(FALSE, commitInterruptNewHead)
    /\ UNCHANGED <<dInterrupt, dTimer, timerArmed, nextWord, interrupts, newWorkCh,
                   startCh, newTxs, pendingTasks, resubmitAdjustCh, busyMining,
                   snapshot, pVars, NotDispatcher>>

ChMainFrame ==
    UNCHANGED <<work, cVars, envCopy, deadline, head, chainHeadCh, newTxs,
                busyMining, current, snapshot, mtask, fillAborted, mAdd, tpc,
                ttask, pVars, lVars>>

\* case req := <-w.newWorkCh: commitWork up to fillTransactions
ChMainRecv ==
    /\ mpc = "select"
    /\ newWorkCh # <<>>
    /\ newWorkCh' = Tail(newWorkCh)
    /\ mreq' = Head(newWorkCh)
    /\ mpc' = "ch_local"
    /\ ChMainFrame
    /\ UNCHANGED NotMain

\* What follows a call of commitTransactions in fillTransactions and
\* commitWork: after the local call the remote one, then the return to the
\* select of the main loop.
ChAfter(pc) == IF pc = "ch_local" THEN "ch_remote" ELSE "select"

ChTxs(pc) == IF pc = "ch_local" THEN LocalTxs ELSE RemoteTxs

\* One call of commitTransactions up to its send: with the word at NewHead it
\* returns true and fillTransactions returns; with the word at Resubmit it
\* sends inc: true; with no signal it runs to the end of its loop and sends
\* inc: false.
ChFill ==
    /\ mpc \in {"ch_local", "ch_remote"}
    /\ LET word == interrupts[mreq.interrupt]
       IN  mpc' = IF ChTxs(mpc) = <<>> THEN ChAfter(mpc)
                  ELSE IF ~InterruptLoad1(word) THEN mpc \o "_dec"
                  ELSE IF InterruptLoad2(word) THEN mpc \o "_inc"
                  ELSE IF InterruptLoad3(word) THEN "select"
                  ELSE ChAfter(mpc)
    /\ mreq' = IF mpc' = "select" THEN NoReq ELSE mreq
    /\ UNCHANGED newWorkCh
    /\ ChMainFrame
    /\ UNCHANGED NotMain

ChSending == {"ch_local_dec", "ch_local_inc", "ch_remote_dec", "ch_remote_inc"}

\* w.resubmitAdjustCh <- &intervalAdjust{...}
ChAdjustSend ==
    /\ mpc \in ChSending
    /\ Len(resubmitAdjustCh) < resubmitAdjustChanSize
    /\ LET inc == mpc \in {"ch_local_inc", "ch_remote_inc"}
           from == IF mpc \in {"ch_local_dec", "ch_local_inc"} THEN "ch_local"
                   ELSE "ch_remote"
       IN  /\ resubmitAdjustCh' =
                 Append(resubmitAdjustCh,
                        [ratio |-> IF inc THEN 100 ELSE 0, inc |-> inc])
           /\ mpc' = ChAfter(from)
    /\ mreq' = IF mpc' = "select" THEN NoReq ELSE mreq
    /\ UNCHANGED newWorkCh
    /\ ChMainFrame
    /\ UNCHANGED <<interrupts, cfgVars, running, exited, startCh, dVars,
                   rounds, pool, tprev, tstop, pendingTasks, sVars, uVars, kVars,
                   x0Vars, bVars>>

InitChan == InitPoW

NextChan ==
    \/ ChHead
    \/ ChDispStart
    \/ ChDispChainHead
    \/ DispStore
    \/ DispSend
    \/ DispReset
    \/ DispAdjust
    \/ ChMainRecv
    \/ ChFill
    \/ ChAdjustSend

SpecChan == InitChan /\ [][NextChan]_vars

\* C38: with exitCh open the main loop is never blocked in a send on the full
\* resubmitAdjustCh while the dispatcher is blocked in a send on the full
\* newWorkCh.
C38_NoMutualBlock ==
    ~(/\ ~exited
      /\ mpc \in ChSending
      /\ Len(resubmitAdjustCh) >= resubmitAdjustChanSize
      /\ dpc = "send"
      /\ Len(newWorkCh) >= newWorkChanSize)

\* C39: a word of the PoW dispatcher changes at most once, from None to
\* NewHead or Resubmit, and no word is dropped; so after a first load that
\* saw a signal, the second and third load of the committer's check see the
\* same signal.
C39_WordsSetOnce ==
    /\ [][/\ Len(interrupts') >= Len(interrupts)
          /\ \A w \in DOMAIN interrupts :
                interrupts'[w] # interrupts[w] =>
                   /\ interrupts[w] = commitInterruptNone
                   /\ interrupts'[w] \in {commitInterruptNewHead,
                                          commitInterruptResubmit}]_vars
    /\ [](cpc \in {"load2", "send_inc", "load3"} =>
             /\ cr1 # commitInterruptNone
             /\ interrupts[cint] = cr1)
    /\ [][(CommitterLoad2 \/ CommitterLoad3) =>
             /\ InterruptLoad2(interrupts[cint]) = (cr1 = commitInterruptResubmit)
             /\ InterruptLoad3(interrupts[cint]) = (cr1 = commitInterruptNewHead)]_vars

\* The committer is at its third load of a word that holds Resubmit, after
\* the send, and the dispatcher has already created the next word.
C39_Witness ==
    /\ isPoW /\ cpc = "load3" /\ cint # 0
    /\ cr1 = commitInterruptResubmit
    /\ interrupts[cint] = commitInterruptResubmit
    /\ resubmitAdjustCh # <<>>
    /\ Len(interrupts) > cint

(***************************************************************************)
(* SpecEvents: the leader-mode worker with transaction and side-chain      *)
(* events.                                                                 *)
(***************************************************************************)
MaxSideEvents == 1         \* side blocks the main loop records

\* mainLoop, case ev := <-w.chainSideCh, on w.current (uenv is its uncle
\* part): the duplicate short circuit, the local or remote set, and for a
\* running worker with w.current set and fewer than two uncles commitUncle
\* and commitEx(w.current.copy(), nil, true, start)
MainSide ==
    /\ mpc = "select"
    /\ Cardinality(localUncles) + Cardinality(remoteUncles) < MaxSideEvents
    /\ \E b \in SideBlocks, local \in BOOLEAN :
          IF b.hash \in Hashes(localUncles) \cup Hashes(remoteUncles)
          THEN UNCHANGED <<uVars, work, mpc>>
          ELSE /\ localUncles' = IF local THEN localUncles \cup {b} ELSE localUncles
               /\ remoteUncles' = IF local THEN remoteUncles ELSE remoteUncles \cup {b}
               /\ IF /\ running
                     /\ current # NoEnv
                     /\ Cardinality(uenv.uncles) < 2
                     /\ commitUncle(uenv, b).err = Nil
                  THEN /\ uenv' = commitUncle(uenv, b).env
                       /\ ucopy' = copyUncles(commitUncle(uenv, b).env)
                       /\ work' = copy(current)
                       /\ mpc' = "cex"
                  ELSE UNCHANGED <<uenv, ucopy, work, mpc>>
    /\ UNCHANGED <<cVars, hVars, interrupts, resubmitAdjustCh, deadline, cfgVars,
                   head, wVars, busyMining, current, pendingTasks, snapshot, chVars,
                   dVars, mreq, mtask, fillAborted, mAdd, tVars, pVars, lVars, sVars,
                   kVars, xVars>>

InitEvents ==
    /\ NoCall
    /\ rounds = 0
    /\ envCopy = NoEnv
    /\ pool = <<AccountList(1, 1, 1)>>
    /\ interrupts = <<>>
    /\ resubmitAdjustCh = <<>>
    /\ deadline = FALSE
    /\ kinds = { k \in RoundKinds : k.err = Nil }
    /\ isPoW = FALSE
    /\ cliqueZero \in BOOLEAN
    /\ coinbaseSet = TRUE
    /\ noempty = FALSE
    /\ ttdReached = FALSE
    /\ simpleOrder = FALSE
    /\ nLocal = 0
    /\ configRecommit = minRecommitInterval
    /\ newWorker(TRUE)

NextEvents ==
    \/ DispExStart
    \/ DispExTimer
    \/ DispExCas
    \/ DispExSend
    \/ DispExRelease
    \/ MainNewWork
    \/ MainTxs
    \/ MainSide
    \/ CwCas
    \/ CwAcquire
    \/ CwRefresh
    \/ CwPrepare
    \/ CwExRound
    \/ CwExRoundDone
    \/ Tick
    \/ CexSeal
    \/ CexWrite
    \/ CexUpdate
    \/ CommitterBody
    \/ ApiStart
    \/ ApiStop

SpecEvents == InitEvents /\ [][NextEvents]_vars

\* C40: in leader mode w.current stays nil; a transaction event never starts
\* the committer on a pending environment, a side-chain event never commits
\* an uncle, and the snapshot changes only in commitEx and refreshPending.
C40_LeaderNeverInstalls ==
    /\ [](~isPoW /\ current = NoEnv)
    /\ [][MainTxs => (mpc' # "txs_wait" /\ cpc' = cpc /\ work' = work
                       /\ snapshot' = snapshot)]_vars
    /\ [][MainSide => (mpc' = mpc /\ uenv' = uenv /\ ucopy' = ucopy
                        /\ work' = work /\ snapshot' = snapshot)]_vars
    /\ [][snapshot' # snapshot => (CexUpdate \/ CwRefresh \/ DispExRefresh)]_vars

\* After a commitEx has written a block and updated the snapshot, with a
\* transaction event counted and a side block recorded by a running worker,
\* w.current is still nil.
C40_Witness ==
    /\ ~isPoW /\ current = NoEnv
    /\ running /\ mpc = "select"
    /\ head >= 1
    /\ snapshot # NoSnapshot /\ snapshot.block.number >= 1
    /\ newTxs >= 1
    /\ localUncles \cup remoteUncles # {}

====
